---- MODULE Spec2Model ----
(***************************************************************************)
(* Store-locator backend: authentication (login / refresh / logout),       *)
(* the authenticate-then-authorize request pipeline, user management, the  *)
(* store endpoints guarded by it, bulk import, geocoding, the cache and    *)
(* the public search.                                                      *)
(*                                                                         *)
(* Time is a counter of ticks.  A request is handled atomically: each      *)
(* handler is an operator from the request and the current tables to the   *)
(* response and the tables it leaves, and one action applies it.  Cache    *)
(* calls, and a search next to a store mutation, are also taken step by    *)
(* step, as worker threads interleave them.                                *)
(***************************************************************************)
EXTENDS Integers, Sequences, FiniteSets, TLC

\* ------------------------------------------------------------------ bounds
MaxTime == 3       \* ticks the clock may advance
MaxLogins == 2     \* successful logins (refresh-token records created)
MaxIssued == 4     \* distinct tokens clients hold

\* Token lifetimes in ticks: the access token is the short-lived one
\* (15 minutes), the refresh token and its stored record the long-lived
\* one (7 days).
ACCESS_TOKEN_EXPIRE == 1
REFRESH_TOKEN_EXPIRE == 2
RefreshRecordLifetime == 2
\* Lifetime of a cached geocoding result (30 days).
GEOCODING_TTL == 3
\* SEARCH_TTL: five minutes.
SEARCH_TTL == 1

\* ------------------------------------------------------------ seeded data
\* role_id: Optional[int] given as null, and the role_id column left NULL.
NoRole == -1

\* init_db.seed_roles_and_permissions: roles in insertion order.
RoleIds == {1, 2, 3}

RoleName(rid) ==
    CASE rid = 1 -> "admin"
      [] rid = 2 -> "marketer"
      [] rid = 3 -> "viewer"
      [] OTHER -> "none"

AllPermissions ==
    {"read:stores", "write:stores", "delete:stores", "import:stores",
     "read:users", "write:users", "delete:users"}

\* The seed with write:stores granted to the viewer role as well.
RolePermissionsViewerWrites(rid) ==
    CASE rid = 1 -> AllPermissions
      [] rid = 2 -> {"read:stores", "write:stores", "delete:stores", "import:stores"}
      [] rid = 3 -> {"read:stores", "write:stores"}
      [] OTHER -> {}

RolePermissions(rid) ==
    CASE rid = 1 -> AllPermissions
      [] rid = 2 -> {"read:stores", "write:stores", "delete:stores", "import:stores"}
      [] rid = 3 -> {"read:stores"}
      [] OTHER -> {}

\* The password hash is a one-way function of the plaintext; verification
\* recomputes it.
get_password_hash(plain) == <<"bcrypt", plain>>
verify_password(plain, hashed) == hashed = get_password_hash(plain)

\* init_db.seed_users: admin, marketer, viewer, ids 1..3, all active.
SeedUsers ==
    [u \in {1, 2, 3} |->
        [email |-> CASE u = 1 -> "admin@test.com"
                     [] u = 2 -> "marketer@test.com"
                     [] OTHER -> "viewer@test.com",
         hashed_password |-> get_password_hash(
                    CASE u = 1 -> "AdminTest123!"
                      [] u = 2 -> "MarketerTest123!"
                      [] OTHER -> "ViewerTest123!"),
         status |-> "active",
         role_id |-> u]]

\* ------------------------------------------------------------------ state
VARIABLES
    now,             \* the clock
    jwtStrict,       \* the JWT library rejects a token at now = exp (else only after)
    users,           \* users table: id -> row
    refresh_tokens,  \* refresh_tokens table: set of rows
    issued,          \* tokens handed to clients so far
    stores,          \* stores table: store_id -> row
    store_services,  \* store_services table: set of <<store_id, service_name>>
    cache,           \* the process-wide SimpleCache: key -> entry
    calls,           \* the cache call each worker thread is in, and where in it
    last_set,        \* key -> what the threads' last set of that key was called with
    applied,         \* the last call of a utility function: arguments and result
    handlers         \* the search and the store mutation under way, step by step

vars == <<now, jwtStrict, users, refresh_tokens, issued, stores, store_services, cache,
          calls, last_set, applied, handlers>>

\* Coordinates are whole numbers of 1/100000 of a degree.
Degree == 100000
\* A coordinate the request or the row does not give (None).
NoCoord == 99999999

\* ----------------------------------------------------------------- tokens
NoUserId == 0

\* What a client can put in an Authorization header or a request body.
Token(type, user_id, exp, jti, sig) ==
    [type |-> type, user_id |-> user_id, role |-> "", exp |-> exp, jti |-> jti, sig |-> sig]

\* No Authorization header at all.
NoCredentials == Token("absent", NoUserId, 0, 0, "absent")
\* A string that is no token of this service ("invalid_token_here").
Garbage == Token("garbage", NoUserId, 0, 0, "bad")
\* Correctly signed tokens the tables know nothing about: an access token
\* of a user id with no row, an access token without user_id, a refresh
\* token with no stored record.
StaleTokens ==
    {Token("access", 9, MaxTime + 5, 0, "ok"),
     Token("access", NoUserId, MaxTime + 5, 0, "ok"),
     Token("refresh", 1, MaxTime + 5, 0, "ok")}

Presentable == issued \cup StaleTokens \cup {Garbage}

\* The access token carries the name of the role the user has when it is
\* issued ("role": user.role.name).
create_access_token(user_id) ==
    [Token("access", user_id, now + ACCESS_TOKEN_EXPIRE, 0, "ok")
        EXCEPT !.role = RoleName(users[user_id].role_id)]

\* Each refresh token is a distinct string: jti tells apart the tokens of
\* one user that carry the same expiry.
create_refresh_token(user_id) ==
    Token("refresh", user_id, now + REFRESH_TOKEN_EXPIRE,
          Cardinality({t \in issued : /\ t.type = "refresh"
                                      /\ t.user_id = user_id
                                      /\ t.exp = now + REFRESH_TOKEN_EXPIRE}) + 1,
          "ok")

\* The expiry check of the JWT library.
JwtExpired(exp) == IF jwtStrict THEN exp <= now ELSE exp < now

\* Absent (valid = FALSE) on a bad signature, a malformed string or expiry.
decode_token(tok) ==
    IF tok.sig = "ok" /\ ~JwtExpired(tok.exp)
    THEN [valid |-> TRUE, type |-> tok.type, user_id |-> tok.user_id]
    ELSE [valid |-> FALSE, type |-> "", user_id |-> NoUserId]

\* A one-way digest of the token string.
hash_token(tok) == <<"sha256", tok>>

\* --------------------------------------------------------- authentication
\* fastapi's HTTPBearer: a request without credentials is answered 403
\* before any dependency of this repository runs.
security(cred) ==
    IF cred = NoCredentials
    THEN [ok |-> FALSE, stage |-> "security", status |-> 403,
          detail |-> "Not authenticated", user_id |-> NoUserId]
    ELSE [ok |-> TRUE, stage |-> "security", status |-> 200,
          detail |-> "", user_id |-> NoUserId]

Unauthorized(detail) ==
    [ok |-> FALSE, stage |-> "authn", status |-> 401,
     detail |-> detail, user_id |-> NoUserId]

\* get_current_user without the check of the user's status.
get_current_user_any_status(cred) ==
    LET payload == decode_token(cred) IN
    IF ~payload.valid
    THEN Unauthorized("Invalid authentication credentials")
    ELSE IF payload.type # "access"
    THEN Unauthorized("Invalid token type")
    ELSE IF payload.user_id = NoUserId
    THEN Unauthorized("Invalid token payload")
    ELSE IF payload.user_id \notin DOMAIN users
    THEN Unauthorized("User not found")
    ELSE [ok |-> TRUE, stage |-> "authn", status |-> 200,
          detail |-> "", user_id |-> payload.user_id]

get_current_user(cred) ==
    LET payload == decode_token(cred) IN
    IF ~payload.valid
    THEN Unauthorized("Invalid authentication credentials")
    ELSE IF payload.type # "access"
    THEN Unauthorized("Invalid token type")
    ELSE IF payload.user_id = NoUserId
    THEN Unauthorized("Invalid token payload")
    ELSE IF payload.user_id \notin DOMAIN users
    THEN Unauthorized("User not found")
    ELSE IF users[payload.user_id].status # "active"
    THEN Unauthorized("User account is inactive")
    ELSE [ok |-> TRUE, stage |-> "authn", status |-> 200,
          detail |-> "", user_id |-> payload.user_id]

\* Depends(get_current_user): the bearer scheme, then get_current_user.
Authenticate(cred) ==
    IF ~security(cred).ok THEN security(cred) ELSE get_current_user(cred)

user_permissions(user_id) == RolePermissions(users[user_id].role_id)

\* require_permission that tests the permission of whoever calls, an
\* unauthenticated caller holding none.
require_permission_anonymous(permission_name, cred) ==
    LET current_user == Authenticate(cred) IN
    IF \/ ~current_user.ok
       \/ permission_name \notin user_permissions(current_user.user_id)
    THEN [ok |-> FALSE, stage |-> "authz", status |-> 403,
          detail |-> "Permission denied", user_id |-> current_user.user_id]
    ELSE [current_user EXCEPT !.stage = "authz"]

\* require_permission that consults the role named in the token.
require_permission_by_claim(permission_name, cred) ==
    LET current_user == Authenticate(cred)
        claimed == {rid \in RoleIds : RoleName(rid) = cred.role}
    IN  IF ~current_user.ok
        THEN current_user
        ELSE IF \A rid \in claimed : permission_name \notin RolePermissions(rid)
        THEN [ok |-> FALSE, stage |-> "authz", status |-> 403,
              detail |-> "Permission denied", user_id |-> current_user.user_id]
        ELSE [current_user EXCEPT !.stage = "authz"]

require_permission(permission_name, cred) ==
    LET current_user == Authenticate(cred) IN
    IF ~current_user.ok
    THEN current_user
    \* current_user.role is None: the attribute access raises
    ELSE IF users[current_user.user_id].role_id \notin RoleIds
    THEN [ok |-> FALSE, stage |-> "authz", status |-> 500,
          detail |-> "Internal Server Error", user_id |-> current_user.user_id]
    ELSE IF permission_name \notin user_permissions(current_user.user_id)
    THEN [ok |-> FALSE, stage |-> "authz", status |-> 403,
          detail |-> "Permission denied", user_id |-> current_user.user_id]
    ELSE [current_user EXCEPT !.stage = "authz"]

require_role(role_name, cred) ==
    LET current_user == Authenticate(cred) IN
    IF ~current_user.ok
    THEN current_user
    ELSE IF users[current_user.user_id].role_id \notin RoleIds
    THEN [ok |-> FALSE, stage |-> "authz", status |-> 500,
          detail |-> "Internal Server Error", user_id |-> current_user.user_id]
    ELSE IF RoleName(users[current_user.user_id].role_id) # role_name
    THEN [ok |-> FALSE, stage |-> "authz", status |-> 403,
          detail |-> "Access denied", user_id |-> current_user.user_id]
    ELSE [current_user EXCEPT !.stage = "authz"]

\* ------------------------------------------------------------ auth router
\* A handler's result: the response (status, detail, the tokens it returns),
\* the last stage of the request pipeline that ran, and the tables as the
\* handler leaves them.
NoToken == NoCredentials

UserByEmail(email) == {u \in DOMAIN users : users[u].email = email}

NewRefreshRecord(refresh_token, user_id) ==
    [token_hash |-> hash_token(refresh_token),
     user_id |-> user_id,
     expires_at |-> now + RefreshRecordLifetime,
     revoked |-> FALSE]

LoginFailed(detail) ==
    [status |-> 401, detail |-> detail, stage |-> "handler",
     access_token |-> NoToken, refresh_token |-> NoToken,
     refresh_tokens |-> refresh_tokens]

\* POST /api/auth/login
login(email, password) ==
    LET found == UserByEmail(email) IN
    IF found = {}
    THEN LoginFailed("Incorrect email or password")
    ELSE LET user == CHOOSE u \in found : TRUE IN
         IF ~verify_password(password, users[user].hashed_password)
         THEN LoginFailed("Incorrect email or password")
         ELSE IF users[user].status # "active"
         THEN LoginFailed("User account is inactive")
         \* "role": user.role.name raises when the user has no role
         ELSE IF users[user].role_id \notin RoleIds
         THEN [LoginFailed("Internal Server Error") EXCEPT !.status = 500]
         ELSE [status |-> 200, detail |-> "", stage |-> "handler",
               access_token |-> create_access_token(user),
               refresh_token |-> create_refresh_token(user),
               refresh_tokens |-> refresh_tokens \cup
                    {NewRefreshRecord(create_refresh_token(user), user)}]

Login(email, password) ==
    LET r == login(email, password) IN
    /\ r.status = 200 =>
          /\ Cardinality(refresh_tokens) < MaxLogins
          /\ Cardinality(issued \cup {r.access_token, r.refresh_token}) <= MaxIssued
    /\ refresh_tokens' = r.refresh_tokens
    /\ issued' = IF r.status = 200
                 THEN issued \cup {r.access_token, r.refresh_token}
                 ELSE issued
    /\ UNCHANGED <<now, jwtStrict, users, stores, store_services, cache, calls, last_set, applied, handlers>>

\* The lookup without the filter on revoked.
RefreshLookupAnyState(token_hash) ==
    {t \in refresh_tokens : t.token_hash = token_hash}

\* The stored, non-revoked record of a token hash.
RefreshLookup(token_hash) ==
    {t \in refresh_tokens : t.token_hash = token_hash /\ t.revoked = FALSE}

RecordExpired(db_token) == db_token.expires_at < now

RefreshFailed(detail) ==
    [status |-> 401, detail |-> detail, stage |-> "handler",
     access_token |-> NoToken, refresh_token |-> NoToken,
     refresh_tokens |-> refresh_tokens]

\* refresh with rotation: a success revokes the presented token's record.
refresh_access_token_rotating(refresh_token) ==
    LET payload == decode_token(refresh_token)
        matches == RefreshLookup(hash_token(refresh_token))
    IN  IF ~payload.valid \/ payload.type # "refresh"
        THEN RefreshFailed("Invalid refresh token")
        ELSE IF matches = {}
        THEN RefreshFailed("Refresh token not found or has been revoked")
        ELSE IF RecordExpired(CHOOSE t \in matches : TRUE)
        THEN RefreshFailed("Refresh token has expired")
        ELSE IF \/ payload.user_id \notin DOMAIN users
                \/ users[payload.user_id].status # "active"
        THEN RefreshFailed("User not found or inactive")
        ELSE [status |-> 200, detail |-> "", stage |-> "handler",
              access_token |-> create_access_token(payload.user_id),
              refresh_token |-> refresh_token,
              refresh_tokens |->
                  (refresh_tokens \ matches)
                      \cup {[t EXCEPT !.revoked = TRUE] : t \in matches}]

\* POST /api/auth/refresh
refresh_access_token(refresh_token) ==
    LET payload == decode_token(refresh_token)
        matches == RefreshLookup(hash_token(refresh_token))
    IN  IF ~payload.valid \/ payload.type # "refresh"
        THEN RefreshFailed("Invalid refresh token")
        ELSE IF matches = {}
        THEN RefreshFailed("Refresh token not found or has been revoked")
        ELSE IF RecordExpired(CHOOSE t \in matches : TRUE)
        THEN RefreshFailed("Refresh token has expired")
        ELSE IF \/ payload.user_id \notin DOMAIN users
                \/ users[payload.user_id].status # "active"
        THEN RefreshFailed("User not found or inactive")
        \* "role": user.role.name raises when the user has no role
        ELSE IF users[payload.user_id].role_id \notin RoleIds
        THEN [RefreshFailed("Internal Server Error") EXCEPT !.status = 500]
        ELSE [status |-> 200, detail |-> "", stage |-> "handler",
              access_token |-> create_access_token(payload.user_id),
              refresh_token |-> refresh_token,
              refresh_tokens |-> refresh_tokens]

Refresh(refresh_token) ==
    LET r == refresh_access_token(refresh_token) IN
    /\ r.status = 200 => Cardinality(issued \cup {r.access_token}) <= MaxIssued
    /\ refresh_tokens' = r.refresh_tokens
    /\ issued' = IF r.status = 200 THEN issued \cup {r.access_token} ELSE issued
    /\ UNCHANGED <<now, jwtStrict, users, stores, store_services, cache, calls, last_set, applied, handlers>>

\* The lookup without the filter on the owner.
LogoutLookupAnyOwner(token_hash, user_id) ==
    {t \in refresh_tokens : t.token_hash = token_hash}

\* The record logout revokes: the caller's own record of that hash.
LogoutLookup(token_hash, user_id) ==
    {t \in refresh_tokens : t.token_hash = token_hash /\ t.user_id = user_id}

\* Revocation that flips the flag instead of setting it.
RevokeToggle(records) ==
    (refresh_tokens \ records) \cup {[t EXCEPT !.revoked = ~t.revoked] : t \in records}

Revoke(records) ==
    (refresh_tokens \ records) \cup {[t EXCEPT !.revoked = TRUE] : t \in records}

\* logout that refuses a token whose record is already revoked.
logout_rejecting_revoked(cred, refresh_token) ==
    LET current_user == Authenticate(cred)
        found == LogoutLookup(hash_token(refresh_token), current_user.user_id)
    IN  IF ~current_user.ok
        THEN [status |-> current_user.status, detail |-> current_user.detail,
              stage |-> current_user.stage, refresh_tokens |-> refresh_tokens]
        ELSE IF \E t \in found : t.revoked
        THEN [status |-> 401, detail |-> "Refresh token has been revoked",
              stage |-> "handler", refresh_tokens |-> refresh_tokens]
        ELSE [status |-> 200, detail |-> "Successfully logged out", stage |-> "handler",
              refresh_tokens |-> Revoke(found)]

\* POST /api/auth/logout
logout(cred, refresh_token) ==
    LET current_user == Authenticate(cred) IN
    IF ~current_user.ok
    THEN [status |-> current_user.status, detail |-> current_user.detail,
          stage |-> current_user.stage, refresh_tokens |-> refresh_tokens]
    ELSE [status |-> 200, detail |-> "Successfully logged out", stage |-> "handler",
          refresh_tokens |->
              Revoke(LogoutLookup(hash_token(refresh_token), current_user.user_id))]

Logout(cred, refresh_token) ==
    /\ refresh_tokens' = logout(cred, refresh_token).refresh_tokens
    /\ UNCHANGED <<now, jwtStrict, users, issued, stores, store_services, cache, calls, last_set, applied, handlers>>

\* GET /api/auth/me
get_current_user_info(cred) ==
    LET current_user == Authenticate(cred) IN
    [status |-> current_user.status, detail |-> current_user.detail,
     stage |-> IF current_user.ok THEN "handler" ELSE current_user.stage,
     user_id |-> current_user.user_id]

Me(cred) ==
    /\ get_current_user_info(cred).status \in {200, 401, 403}
    /\ UNCHANGED vars

\* ------------------------------------------- admin router: user management
\* A field the request body leaves out (model_dump(exclude_unset=True)).
UnsetRole == 0
UnsetStatus == "unset"

NextUserId == IF DOMAIN users = {} THEN 1
              ELSE (CHOOSE m \in DOMAIN users : \A u \in DOMAIN users : u <= m) + 1

Denied(current_user) ==
    [status |-> current_user.status, detail |-> current_user.detail,
     stage |-> current_user.stage, users |-> users]

\* POST /api/admin/users
create_user(cred, user_data) ==
    LET current_user == require_permission("write:users", cred) IN
    IF ~current_user.ok
    THEN Denied(current_user)
    ELSE IF UserByEmail(user_data.email) # {}
    THEN [status |-> 400, detail |-> "Email already registered",
          stage |-> "handler", users |-> users]
    ELSE [status |-> 201, detail |-> "", stage |-> "handler",
          users |-> [u \in DOMAIN users \cup {NextUserId} |->
                        IF u \in DOMAIN users THEN users[u]
                        ELSE [email |-> user_data.email,
                              hashed_password |-> get_password_hash(user_data.password),
                              status |-> "active",
                              role_id |-> user_data.role_id]]]

CreateUser(cred, user_data) ==
    /\ users' = create_user(cred, user_data).users
    /\ UNCHANGED <<now, jwtStrict, refresh_tokens, issued, stores, store_services, cache, calls, last_set, applied, handlers>>

\* GET /api/admin/users
list_users(cred) ==
    LET current_user == require_permission("write:users", cred) IN
    IF ~current_user.ok
    THEN Denied(current_user)
    ELSE [status |-> 200, detail |-> "", stage |-> "handler", users |-> users]

\* GET /api/admin/users/{user_id}
get_user(cred, user_id) ==
    LET current_user == require_permission("write:users", cred) IN
    IF ~current_user.ok
    THEN Denied(current_user)
    ELSE IF user_id \notin DOMAIN users
    THEN [status |-> 404, detail |-> "User not found", stage |-> "handler", users |-> users]
    ELSE [status |-> 200, detail |-> "", stage |-> "handler", users |-> users]

ReadUsers(cred, user_id) ==
    /\ list_users(cred).users = users
    /\ get_user(cred, user_id).users = users
    /\ UNCHANGED vars

\* The row after setattr of every field the body sets.
ApplyUserUpdate(row, user_data) ==
    [row EXCEPT
        !.role_id = IF user_data.role_id = UnsetRole THEN @ ELSE user_data.role_id,
        !.status = IF user_data.status = UnsetStatus THEN @ ELSE user_data.status]

\* PUT /api/admin/users/{user_id}
update_user(cred, user_id, user_data) ==
    LET current_user == require_permission("write:users", cred) IN
    IF ~current_user.ok
    THEN Denied(current_user)
    ELSE IF user_id \notin DOMAIN users
    THEN [status |-> 404, detail |-> "User not found", stage |-> "handler", users |-> users]
    ELSE [status |-> 200, detail |-> "", stage |-> "handler",
          users |-> [users EXCEPT ![user_id] = ApplyUserUpdate(@, user_data)]]

UpdateUser(cred, user_id, user_data) ==
    /\ users' = update_user(cred, user_id, user_data).users
    /\ UNCHANGED <<now, jwtStrict, refresh_tokens, issued, stores, store_services, cache, calls, last_set, applied, handlers>>

\* DELETE /api/admin/users/{user_id}
deactivate_user(cred, user_id) ==
    LET current_user == require_permission("write:users", cred) IN
    IF ~current_user.ok
    THEN Denied(current_user)
    ELSE IF user_id \notin DOMAIN users
    THEN [status |-> 404, detail |-> "User not found", stage |-> "handler", users |-> users]
    ELSE IF user_id = current_user.user_id
    THEN [status |-> 400, detail |-> "Cannot deactivate your own account",
          stage |-> "handler", users |-> users]
    ELSE [status |-> 204, detail |-> "", stage |-> "handler",
          users |-> [users EXCEPT ![user_id].status = "inactive"]]

DeactivateUser(cred, user_id) ==
    /\ users' = deactivate_user(cred, user_id).users
    /\ UNCHANGED <<now, jwtStrict, refresh_tokens, issued, stores, store_services, cache, calls, last_set, applied, handlers>>

\* ------------------------------------------------------------------ cache
EmptyCache == [k \in {} |-> [value |-> 0, expires_at |-> 0]]

\* get that treats an entry as expired from the instant expires_at on.
cache_get_expiring_early(c, key) ==
    IF key \notin DOMAIN c
    THEN [hit |-> FALSE, cache |-> c]
    ELSE IF now >= c[key].expires_at
    THEN [hit |-> FALSE, cache |-> [k \in DOMAIN c \ {key} |-> c[k]]]
    ELSE [hit |-> TRUE, cache |-> c]

\* SimpleCache.get: absent for a missing key; an entry past its expiry is
\* removed and absent.  The result carries the map as get leaves it.
cache_get(c, key) ==
    IF key \notin DOMAIN c
    THEN [hit |-> FALSE, cache |-> c]
    ELSE IF now > c[key].expires_at
    THEN [hit |-> FALSE, cache |-> [k \in DOMAIN c \ {key} |-> c[k]]]
    ELSE [hit |-> TRUE, cache |-> c]

cache_set(c, key, value, ttl_seconds) ==
    [k \in DOMAIN c \cup {key} |->
        IF k = key THEN [value |-> value, expires_at |-> now + ttl_seconds] ELSE c[k]]

cache_clear(c) == EmptyCache

cache_delete(c, key) == [k \in DOMAIN c \ {key} |-> c[k]]

\* ---------------------------------------------- cache calls, thread by thread
\* Request handlers run on a pool of worker threads and share the one cache
\* object without a lock.  A single dictionary operation is atomic; a call
\* that makes several of them can be interleaved with other calls between
\* any two.  pc names the line of cache.py the thread executes next.
Threads == {1, 2}
CacheKeys == {"k"}
\* The value a thread writes names the thread.
ValueOf(t) == <<"value of thread", t>>
TtlInputs == {1}

NoEntry == [value |-> <<"none">>, expires_at |-> 0]
NoResult == [kind |-> "none", value |-> <<"none">>, total |-> 0, active |-> 0, expired |-> 0]
Returned(value) == [NoResult EXCEPT !.kind = "value", !.value = value]
Raised(error) == [NoResult EXCEPT !.kind = "raised", !.value = <<error>>]

Idle == [op |-> "idle", pc |-> "idle", key |-> "", entry |-> NoEntry,
         total |-> 0, size |-> 0, seen |-> {}, expired |-> 0, result |-> NoResult]

NeverSet == [value |-> <<"none">>, at |-> 0, ttl |-> 0, called |-> FALSE]

Finish(t, result) ==
    calls' = [calls EXCEPT ![t] = [Idle EXCEPT !.op = calls[t].op, !.key = calls[t].key,
                                               !.pc = "done", !.result = result]]

Goto(t, pc) == calls' = [calls EXCEPT ![t].pc = pc]

OtherTables == <<now, jwtStrict, users, refresh_tokens, issued, stores, store_services, applied, handlers>>

\* A thread that is in no call enters get, delete or get_stats.
Call(t, op, key) ==
    /\ calls[t].pc \in {"idle", "done"}
    /\ calls' = [calls EXCEPT ![t] = [Idle EXCEPT !.op = op, !.key = key,
                    !.pc = CASE op = "get" -> "get:26"
                             [] op = "delete" -> "delete:48"
                             [] OTHER -> "get_stats:57"]]
    /\ UNCHANGED <<cache, last_set, OtherTables>>

\* get, line 26: if key not in self._cache: return None
GetContains(t) ==
    /\ calls[t].pc = "get:26"
    /\ IF calls[t].key \notin DOMAIN cache
       THEN Finish(t, NoResult)
       ELSE Goto(t, "get:29")
    /\ UNCHANGED <<cache, last_set, OtherTables>>

\* get, line 29: entry = self._cache[key]
GetLookup(t) ==
    /\ calls[t].pc = "get:29"
    /\ IF calls[t].key \notin DOMAIN cache
       THEN Finish(t, Raised("KeyError"))
       ELSE calls' = [calls EXCEPT ![t].pc = "get:32", ![t].entry = cache[calls[t].key]]
    /\ UNCHANGED <<cache, last_set, OtherTables>>

\* get, lines 32 and 36: the expiry test on the entry read at line 29
GetExpired(t) ==
    /\ calls[t].pc = "get:32"
    /\ IF now > calls[t].entry.expires_at
       THEN Goto(t, "get:33")
       ELSE Finish(t, Returned(calls[t].entry.value))
    /\ UNCHANGED <<cache, last_set, OtherTables>>

\* get, lines 33-34: del self._cache[key]; return None
GetDel(t) ==
    /\ calls[t].pc = "get:33"
    /\ IF calls[t].key \notin DOMAIN cache
       THEN Finish(t, Raised("KeyError")) /\ UNCHANGED cache
       ELSE Finish(t, NoResult) /\ cache' = cache_delete(cache, calls[t].key)
    /\ UNCHANGED <<last_set, OtherTables>>

\* set, lines 40-44: one dictionary store
Set(t, key, ttl_seconds) ==
    /\ calls[t].pc \in {"idle", "done"}
    /\ cache' = cache_set(cache, key, ValueOf(t), ttl_seconds)
    /\ last_set' = [last_set EXCEPT ![key] =
                        [value |-> ValueOf(t), at |-> now, ttl |-> ttl_seconds,
                         called |-> TRUE]]
    /\ calls' = [calls EXCEPT ![t] = [Idle EXCEPT !.op = "set", !.key = key, !.pc = "done"]]
    /\ UNCHANGED OtherTables

\* delete, line 48: if key in self._cache
DeleteContains(t) ==
    /\ calls[t].pc = "delete:48"
    /\ IF calls[t].key \notin DOMAIN cache
       THEN Finish(t, NoResult)
       ELSE Goto(t, "delete:49")
    /\ UNCHANGED <<cache, last_set, OtherTables>>

\* delete, line 49: del self._cache[key]
DeleteDel(t) ==
    /\ calls[t].pc = "delete:49"
    /\ IF calls[t].key \notin DOMAIN cache
       THEN Finish(t, Raised("KeyError")) /\ UNCHANGED cache
       ELSE Finish(t, NoResult) /\ cache' = cache_delete(cache, calls[t].key)
    /\ UNCHANGED <<last_set, OtherTables>>

\* clear, line 53: one dictionary operation
Clear(t) ==
    /\ calls[t].pc \in {"idle", "done"}
    /\ cache' = cache_clear(cache)
    /\ calls' = [calls EXCEPT ![t] = [Idle EXCEPT !.op = "clear", !.pc = "done"]]
    /\ UNCHANGED <<last_set, OtherTables>>

\* get_stats, line 57: total = len(self._cache)
StatsLen(t) ==
    /\ calls[t].pc = "get_stats:57"
    /\ calls' = [calls EXCEPT ![t].total = Cardinality(DOMAIN cache),
                              ![t].pc = "get_stats:58"]
    /\ UNCHANGED <<cache, last_set, OtherTables>>

\* get_stats, line 58: the iterator over self._cache.values() is created
StatsIter(t) ==
    /\ calls[t].pc = "get_stats:58"
    /\ calls' = [calls EXCEPT ![t].size = Cardinality(DOMAIN cache),
                              ![t].pc = "get_stats:59"]
    /\ UNCHANGED <<cache, last_set, OtherTables>>

\* get_stats, lines 58-65: one step of the iteration.  The iterator raises
\* RuntimeError when the dictionary's size is not the one it started with.
StatsNext(t) ==
    /\ calls[t].pc = "get_stats:59"
    /\ IF Cardinality(DOMAIN cache) # calls[t].size
       THEN Finish(t, Raised("RuntimeError"))
       ELSE IF DOMAIN cache \subseteq calls[t].seen
       THEN Finish(t, [NoResult EXCEPT !.kind = "stats",
                                       !.total = calls[t].total,
                                       !.active = calls[t].total - calls[t].expired,
                                       !.expired = calls[t].expired])
       ELSE LET key == CHOOSE k \in DOMAIN cache : k \notin calls[t].seen
            IN  calls' = [calls EXCEPT
                    ![t].seen = @ \cup {key},
                    ![t].expired = @ + IF now > cache[key].expires_at THEN 1 ELSE 0]
    /\ UNCHANGED <<cache, last_set, OtherTables>>

CacheStep(t) ==
    \/ \E op \in {"get", "delete", "get_stats"}, key \in CacheKeys : Call(t, op, key)
    \/ GetContains(t) \/ GetLookup(t) \/ GetExpired(t) \/ GetDel(t)
    \/ \E key \in CacheKeys, ttl_seconds \in TtlInputs : Set(t, key, ttl_seconds)
    \/ DeleteContains(t) \/ DeleteDel(t)
    \/ Clear(t)
    \/ StatsLen(t) \/ StatsIter(t) \/ StatsNext(t)

\* -------------------------------------------------------------- geocoding
\* str.lower on the texts the model uses.
LowerStr(text) ==
    CASE text = "123 Test St" -> "123 test st"
      [] text = "New York" -> "new york"
      [] text = "NY" -> "ny"
      [] text = "USA" -> "usa"
      [] text = "1 Nowhere Rd" -> "1 nowhere rd"
      [] OTHER -> text

\* An address is the sequence of the parts the handler joins with ", ".
Lower(address) == [i \in DOMAIN address |-> LowerStr(address[i])]

NoPlace == [found |-> FALSE, latitude |-> NoCoord, longitude |-> NoCoord]

\* geocode_address that also caches the absence of a place.
geocode_address_caching_absence(c, address, provider) ==
    LET cache_key == <<"geocode:address:", Lower(address)>>
        cached_result == cache_get(c, cache_key)
        location == provider[address]
    IN  IF cached_result.hit
        THEN [result |-> cached_result.cache[cache_key].value, cache |-> cached_result.cache]
        ELSE [result |-> location,
              cache |-> cache_set(cached_result.cache, cache_key, location, GEOCODING_TTL)]

\* geocode_address: the cached place if there is one, else the provider's
\* answer (provider[address]; a timeout or service error is no answer),
\* cached when it is a place.
geocode_address(c, address, provider) ==
    LET cache_key == <<"geocode:address:", Lower(address)>>
        cached_result == cache_get(c, cache_key)
        location == provider[address]
    IN  IF cached_result.hit
        THEN [result |-> cached_result.cache[cache_key].value, cache |-> cached_result.cache]
        ELSE IF location.found
        THEN [result |-> location,
              cache |-> cache_set(cached_result.cache, cache_key, location, GEOCODING_TTL)]
        ELSE [result |-> NoPlace, cache |-> cached_result.cache]

\* ----------------------------------------------------------- stores router
StoreResult(status, detail, stage, st, sv, c) ==
    [status |-> status, detail |-> detail, stage |-> stage,
     stores |-> st, store_services |-> sv, cache |-> c]

StoreDenied(current_user) ==
    StoreResult(current_user.status, current_user.detail, current_user.stage,
                stores, store_services, cache)

HasDuplicates(seq) == \E i, j \in DOMAIN seq : i # j /\ seq[i] = seq[j]

ServiceRows(store_id, services_list) ==
    {<<store_id, services_list[i]>> : i \in DOMAIN services_list}

\* GET /api/stores/ and GET /api/stores/{store_id}
get_store(cred, store_id) ==
    LET current_user == require_permission("read:stores", cred) IN
    IF ~current_user.ok
    THEN StoreDenied(current_user)
    ELSE IF store_id \notin DOMAIN stores
    THEN StoreResult(404, "Store not found", "handler", stores, store_services, cache)
    ELSE StoreResult(200, "", "handler", stores, store_services, cache)

get_all_stores(cred) ==
    LET current_user == require_permission("read:stores", cred) IN
    IF ~current_user.ok
    THEN StoreDenied(current_user)
    ELSE StoreResult(200, "", "handler", stores, store_services, cache)

\* StoreBase: latitude: Field(None, ge=-90, le=90), longitude:
\* Field(None, ge=-180, le=180).
LatitudeInRange(latitude) == -90 * Degree <= latitude /\ latitude <= 90 * Degree
LongitudeInRange(longitude) == -180 * Degree <= longitude /\ longitude <= 180 * Degree

StoreBaseValid(store_data) ==
    /\ store_data.latitude # NoCoord => LatitudeInRange(store_data.latitude)
    /\ store_data.longitude # NoCoord => LongitudeInRange(store_data.longitude)

\* A create without the check for an existing store_id: the new row takes
\* the place of the old one.
create_store_replacing(cred, store_data, provider) ==
    LET current_user == require_permission("write:stores", cred)
        new_store == [name |-> store_data.name,
                      store_type |-> store_data.store_type,
                      status |-> store_data.status,
                      hours |-> store_data.hours,
                      latitude |-> store_data.latitude,
                      longitude |-> store_data.longitude,
                      address_street |-> store_data.address_street,
                      address_city |-> store_data.address_city,
                      address_state |-> store_data.address_state]
    IN  IF ~current_user.ok
        THEN StoreDenied(current_user)
        ELSE StoreResult(201, "", "handler",
                  [k \in DOMAIN stores \cup {store_data.store_id} |->
                        IF k = store_data.store_id THEN new_store ELSE stores[k]],
                  store_services \cup ServiceRows(store_data.store_id, store_data.services),
                  cache_clear(cache))

\* POST /api/stores/
create_store(cred, store_data, provider) ==
    LET current_user == require_permission("write:stores", cred)
        full_address == <<store_data.address_street, store_data.address_city,
                          store_data.address_state>>
        geocode == /\ (store_data.latitude = NoCoord \/ store_data.longitude = NoCoord)
                   /\ store_data.address_street # ""
                   /\ store_data.address_city # ""
                   /\ store_data.address_state # ""
        geo == IF geocode THEN geocode_address(cache, full_address, provider)
               ELSE [result |-> NoPlace, cache |-> cache]
        latitude == IF geo.result.found THEN geo.result.latitude ELSE store_data.latitude
        longitude == IF geo.result.found THEN geo.result.longitude ELSE store_data.longitude
        new_store == [name |-> store_data.name,
                      store_type |-> store_data.store_type,
                      status |-> store_data.status,
                      hours |-> store_data.hours,
                      latitude |-> latitude,
                      longitude |-> longitude,
                      address_street |-> store_data.address_street,
                      address_city |-> store_data.address_city,
                      address_state |-> store_data.address_state]
    IN  IF ~current_user.ok
        THEN StoreDenied(current_user)
        ELSE IF ~StoreBaseValid(store_data)
        THEN StoreResult(422, "Unprocessable Entity", "validation",
                         stores, store_services, cache)
        ELSE IF store_data.store_id \in DOMAIN stores
        THEN StoreResult(400, "Store ID already exists", "handler",
                         stores, store_services, cache)
        \* db.flush(): latitude and longitude are NOT NULL columns
        ELSE IF latitude = NoCoord \/ longitude = NoCoord
        THEN StoreResult(500, "Internal Server Error", "handler",
                         stores, store_services, geo.cache)
        \* the cache is cleared, then a repeated service breaks the primary key
        ELSE IF HasDuplicates(store_data.services)
        THEN StoreResult(500, "Internal Server Error", "handler",
                         stores, store_services, cache_clear(geo.cache))
        ELSE StoreResult(201, "", "handler",
                  [k \in DOMAIN stores \cup {store_data.store_id} |->
                        IF k = store_data.store_id THEN new_store ELSE stores[k]],
                  store_services \cup ServiceRows(store_data.store_id, store_data.services),
                  cache_clear(geo.cache))

\* A field the PATCH body leaves out.
Unset == "unset"
UnsetServices == <<"unset">>

UnsetHours == <<"unset">>

\* A PATCH that writes every field of the body, the ones left out with
\* their defaults.
update_store_overwriting(cred, store_id, store_data) ==
    LET current_user == require_permission("write:stores", cred)
        services_list == IF store_data.services = UnsetServices THEN <<>>
                         ELSE store_data.services
    IN  IF ~current_user.ok
        THEN StoreDenied(current_user)
        ELSE IF store_id \notin DOMAIN stores
        THEN StoreResult(404, "Store not found", "handler", stores, store_services, cache)
        ELSE IF HasDuplicates(services_list)
        THEN StoreResult(500, "Internal Server Error", "handler",
                         stores, store_services, cache)
        ELSE StoreResult(200, "", "handler",
                  [stores EXCEPT ![store_id] =
                      [@ EXCEPT !.name = IF store_data.name = Unset THEN ""
                                         ELSE store_data.name,
                                !.status = IF store_data.status = Unset THEN "active"
                                           ELSE store_data.status,
                                !.hours = IF store_data.hours = UnsetHours THEN <<>>
                                          ELSE store_data.hours]],
                  {r \in store_services : r[1] # store_id}
                      \cup ServiceRows(store_id, services_list),
                  cache_clear(cache))

\* PATCH /api/stores/{store_id}
update_store(cred, store_id, store_data) ==
    LET current_user == require_permission("write:stores", cred)
        services == IF store_data.services = UnsetServices
                    THEN store_services
                    ELSE {r \in store_services : r[1] # store_id}
                            \cup ServiceRows(store_id, store_data.services)
    IN  IF ~current_user.ok
        THEN StoreDenied(current_user)
        ELSE IF store_id \notin DOMAIN stores
        THEN StoreResult(404, "Store not found", "handler", stores, store_services, cache)
        \* a repeated service breaks the primary key of store_services
        ELSE IF store_data.services # UnsetServices /\ HasDuplicates(store_data.services)
        THEN StoreResult(500, "Internal Server Error", "handler",
                         stores, store_services, cache)
        ELSE StoreResult(200, "", "handler",
                  [stores EXCEPT ![store_id] =
                      [@ EXCEPT !.name = IF store_data.name = Unset THEN @
                                         ELSE store_data.name,
                                !.status = IF store_data.status = Unset THEN @
                                           ELSE store_data.status,
                                !.hours = IF store_data.hours = UnsetHours THEN @
                                          ELSE store_data.hours]],
                  services,
                  cache_clear(cache))

\* A delete that removes the row of the store and its service rows.
delete_store_removing_row(cred, store_id) ==
    LET current_user == require_permission("delete:stores", cred) IN
    IF ~current_user.ok
    THEN StoreDenied(current_user)
    ELSE IF store_id \notin DOMAIN stores
    THEN StoreResult(404, "Store not found", "handler", stores, store_services, cache)
    ELSE StoreResult(204, "", "handler",
                     [id \in DOMAIN stores \ {store_id} |-> stores[id]],
                     {r \in store_services : r[1] # store_id}, cache_clear(cache))

\* DELETE /api/stores/{store_id}
delete_store(cred, store_id) ==
    LET current_user == require_permission("delete:stores", cred) IN
    IF ~current_user.ok
    THEN StoreDenied(current_user)
    ELSE IF store_id \notin DOMAIN stores
    THEN StoreResult(404, "Store not found", "handler", stores, store_services, cache)
    ELSE StoreResult(204, "", "handler",
                     [stores EXCEPT ![store_id].status = "inactive"],
                     store_services, cache_clear(cache))

ReadStores(cred, store_id) ==
    /\ get_all_stores(cred).stores = stores
    /\ get_store(cred, store_id).stores = stores
    /\ UNCHANGED vars

ApplyStoreResult(r) ==
    /\ stores' = r.stores
    /\ store_services' = r.store_services
    /\ cache' = r.cache
    /\ UNCHANGED <<now, jwtStrict, users, refresh_tokens, issued, calls, last_set, applied, handlers>>

CreateStore(cred, store_data, provider) ==
    ApplyStoreResult(create_store(cred, store_data, provider))

UpdateStore(cred, store_id, store_data) ==
    ApplyStoreResult(update_store(cred, store_id, store_data))

DeleteStore(cred, store_id) ==
    ApplyStoreResult(delete_store(cred, store_id))

\* ---------------------------------------------- admin router: bulk import
\* A header check that does not ask for the postal code column.
required_headers_without_postal_code ==
    {"store_id", "name", "store_type", "address_street", "address_city", "address_state"}

required_headers ==
    {"store_id", "name", "store_type", "address_street",
     "address_city", "address_state", "address_postal_code"}

valid_types == {"regular", "flagship", "outlet", "pop-up"}

\* The values the store_type column of the table accepts (models.StoreType).
StoreType == {"flagship", "regular", "outlet", "express"}

\* str.strip on the texts the model uses.
Strip(text) ==
    CASE text = " pickup " -> "pickup"
      [] text = " " -> ""
      [] OTHER -> text

\* services_str.split('|'), stripped, the empty pieces dropped.  A row's
\* services field is the sequence of its '|'-separated pieces.
RECURSIVE ParseServices(_)
ParseServices(pieces) ==
    IF pieces = <<>> THEN <<>>
    ELSE IF Strip(Head(pieces)) = "" THEN ParseServices(Tail(pieces))
    ELSE <<Strip(Head(pieces))>> \o ParseServices(Tail(pieces))

\* The inserts of a services list, one at a time, up to the first that
\* repeats a (store_id, service_name) row already there.
RECURSIVE InsertServices(_, _, _)
InsertServices(sv, store_id, services_list) ==
    IF services_list = <<>> THEN [ok |-> TRUE, store_services |-> sv]
    ELSE IF <<store_id, Head(services_list)>> \in sv
    THEN [ok |-> FALSE, store_services |-> sv]
    ELSE InsertServices(sv \cup {<<store_id, Head(services_list)>>},
                        store_id, Tail(services_list))

\* An update that leaves the old service rows of the store in place.
delete_services_keeping_rows(sv, store_id) == sv

\* store_services.delete().where(store_services.c.store_id == row['store_id'])
delete_services(sv, store_id) == {r \in sv : r[1] # store_id}

RowFailed(acc, row_num, row, error) ==
    [acc EXCEPT !.failed_records =
        Append(@, [row_number |-> row_num, store_id |-> row.store_id, error |-> error])]

\* One pass of the loop body over a data row.  acc is the session so far:
\* the tables as the open transaction sees them, the cache, the counters,
\* and whether a flush has failed (the transaction is then rolled back and
\* every later statement, the commit included, raises).
import_row(acc, row, row_num, provider) ==
    LET geocode == row.latitude.kind = "empty" \/ row.longitude.kind = "empty"
        full_address == <<row.address_street, row.address_city,
                          row.address_state, row.address_postal_code>>
        geo == IF geocode THEN geocode_address(acc.cache, full_address, provider)
               ELSE [result |-> NoPlace, cache |-> acc.cache]
        acc1 == [acc EXCEPT !.cache = geo.cache]
        latitude == IF geocode THEN geo.result.latitude ELSE row.latitude.value
        longitude == IF geocode THEN geo.result.longitude ELSE row.longitude.value
        store_type == LowerStr(row.store_type)
        services_list == ParseServices(row.services)
        fields == [name |-> row.name,
                   store_type |-> store_type,
                   hours |-> row.hours,
                   latitude |-> latitude,
                   longitude |-> longitude,
                   address_street |-> row.address_street,
                   address_city |-> row.address_city,
                   address_state |-> row.address_state]
        existing == row.store_id \in DOMAIN acc1.stores
        st == [k \in DOMAIN acc1.stores \cup {row.store_id} |->
                  IF k # row.store_id THEN acc1.stores[k]
                  ELSE [status |-> IF existing THEN acc1.stores[k].status ELSE "active"]
                       @@ fields]
        cleared == IF existing
                   THEN delete_services(acc1.store_services, row.store_id)
                   ELSE acc1.store_services
        inserted == InsertServices(cleared, row.store_id, services_list)
    IN  IF row.store_id = "" \/ row.name = ""
        THEN RowFailed(acc, row_num, row, "Missing store_id or name")
        ELSE IF geocode /\ ~geo.result.found
        THEN RowFailed(acc1, row_num, row,
                       "Could not geocode address and no coordinates provided")
        ELSE IF ~geocode /\ (row.latitude.kind = "text" \/ row.longitude.kind = "text")
        THEN RowFailed(acc1, row_num, row, "Invalid latitude or longitude format")
        ELSE IF store_type \notin valid_types
        THEN RowFailed(acc1, row_num, row, "Invalid store_type")
        ELSE IF acc1.flush_failed
        THEN RowFailed(acc1, row_num, row, "PendingRollbackError")
        ELSE IF store_type \notin StoreType
        THEN RowFailed([acc1 EXCEPT !.flush_failed = TRUE], row_num, row, "LookupError")
        ELSE IF ~inserted.ok
        THEN RowFailed([acc1 EXCEPT !.stores = st,
                                    !.store_services = inserted.store_services],
                       row_num, row, "IntegrityError")
        ELSE [acc1 EXCEPT !.stores = st,
                          !.store_services = inserted.store_services,
                          !.created_count = IF existing THEN @ ELSE @ + 1,
                          !.updated_count = IF existing THEN @ + 1 ELSE @]

\* for row_num, row in enumerate(csv_reader, start=2)
RECURSIVE import_rows(_, _, _, _)
import_rows(acc, rows, row_num, provider) ==
    IF rows = <<>> THEN acc
    ELSE import_rows(import_row(acc, Head(rows), row_num, provider),
                     Tail(rows), row_num + 1, provider)

ImportResult(status, detail, stage, acc, st, sv) ==
    [status |-> status, detail |-> detail, stage |-> stage,
     stores |-> st, store_services |-> sv, cache |-> acc.cache,
     created |-> acc.created_count, updated |-> acc.updated_count,
     failed |-> Len(acc.failed_records), failed_records |-> acc.failed_records,
     total_rows |-> acc.created_count + acc.updated_count + Len(acc.failed_records)]

\* A rollback that leaves the flushed rows of the batch in the tables.
rollback_keeping_rows(start, acc) == [acc EXCEPT !.failed_records = <<>>]

\* db.rollback(): the tables as they were when the batch started; what the
\* geocoder has cached stays.
rollback(start, acc) == [start EXCEPT !.cache = acc.cache]

\* POST /api/admin/stores/import.  file: the upload's name, the header row
\* and the data rows.  storage_fault: db.commit() raises.
bulk_import_stores_on(cred, file, provider, storage_fault) ==
    LET current_user == require_permission("write:stores", cred)
        start == [stores |-> stores, store_services |-> store_services,
                  cache |-> cache, flush_failed |-> FALSE,
                  created_count |-> 0, updated_count |-> 0, failed_records |-> <<>>]
        acc == import_rows(start, file.rows, 2, provider)
        rolled_back == rollback(start, acc)
    IN  IF ~current_user.ok
        THEN ImportResult(current_user.status, current_user.detail, current_user.stage,
                          start, stores, store_services)
        ELSE IF ~file.is_csv
        THEN ImportResult(400, "File must be a CSV file", "handler",
                          start, stores, store_services)
        ELSE IF ~(required_headers \subseteq file.headers)
        THEN ImportResult(400, "Missing required CSV columns", "handler",
                          start, stores, store_services)
        ELSE IF acc.flush_failed \/ storage_fault
        THEN ImportResult(500, "Database error", "handler",
                          rolled_back, rolled_back.stores, rolled_back.store_services)
        ELSE ImportResult(200, "", "handler", acc, acc.stores, acc.store_services)

\* The import on a storage that commits.
bulk_import_stores(cred, file, provider) ==
    bulk_import_stores_on(cred, file, provider, FALSE)

BulkImport(cred, file, provider) ==
    ApplyStoreResult(bulk_import_stores(cred, file, provider))

BulkImportOn(cred, file, provider, storage_fault) ==
    ApplyStoreResult(bulk_import_stores_on(cred, file, provider, storage_fault))

\* ------------------------------------------------------- distance utilities
Abs(x) == IF x < 0 THEN -x ELSE x

Max(a, b) == IF a >= b THEN a ELSE b

\* One degree of latitude in miles (the 69.0 of calculate_bounding_box).
MilesPerDegree == 69

\* cos(radians(latitude)) in thousandths: the Taylor polynomial
\* 1 - x^2/2 + x^4/24 on x in milliradians, never below 1/1000.
CosMilli(latitude) ==
    LET x == ((Abs(latitude) \div 100) * 1745) \div 100000
        sq == x * x
    IN  Max(1, 1000 - (sq \div 2000) + ((sq \div 1000) * (sq \div 1000)) \div 24000)

\* calculate_bounding_box: the deltas in coordinate units.
calculate_bounding_box(latitude, longitude, radius_miles) ==
    LET latitude_delta == (radius_miles * Degree) \div MilesPerDegree
        longitude_delta == (latitude_delta * 1000) \div CosMilli(latitude)
    IN  [min_lat |-> latitude - latitude_delta, max_lat |-> latitude + latitude_delta,
         min_lon |-> longitude - longitude_delta, max_lon |-> longitude + longitude_delta]

RECURSIVE IsqrtFrom(_, _)
IsqrtFrom(n, x) ==
    LET y == (x + n \div x) \div 2 IN IF y >= x THEN x ELSE IsqrtFrom(n, y)

Isqrt(n) == IF n = 0 THEN 0 ELSE IsqrtFrom(n, n)

\* The difference of two longitudes the short way round the globe, as the
\* geodesic takes it.
LongitudeDifference(lon1, lon2) ==
    LET d == Abs(lon2 - lon1) IN IF d > 180 * Degree THEN 360 * Degree - d ELSE d

\* A distance that takes the east-west leg at the latitude of the first
\* point.
DistanceSquaredFromFirst(lat1, lon1, lat2, lon2) ==
    LET north == (Abs(lat2 - lat1) * MilesPerDegree) \div 1000
        east == (((LongitudeDifference(lon1, lon2) * MilesPerDegree) \div 1000)
                    * CosMilli(lat1)) \div 1000
    IN  north * north + east * east

\* The square of the distance between two points, in hundredths of a mile:
\* north-south and east-west legs at MilesPerDegree, the east-west leg
\* shortened by the cosine of the latitude midway between the points.
DistanceSquared(lat1, lon1, lat2, lon2) ==
    LET north == (Abs(lat2 - lat1) * MilesPerDegree) \div 1000
        east == (((LongitudeDifference(lon1, lon2) * MilesPerDegree) \div 1000)
                    * CosMilli((lat1 + lat2) \div 2)) \div 1000
    IN  north * north + east * east

\* round(calculate_distance(...), 2): whole hundredths of a mile.
calculate_distance(lat1, lon1, lat2, lon2) == Isqrt(DistanceSquared(lat1, lon1, lat2, lon2))

\* open_time <= current_time <= close_time, on hours held as
\* <<opening, closing>>, or <<>> for 'closed'.
open_between(hours, current_time) ==
    IF Len(hours) # 2 THEN FALSE ELSE hours[1] <= current_time /\ current_time <= hours[2]

\* Text is a sequence of characters.
Decimals == <<"0", "1", "2", "3", "4", "5", "6", "7", "8", "9">>
IsDecimal(char) == \E i \in DOMAIN Decimals : Decimals[i] = char
DecimalValue(char) == (CHOOSE i \in DOMAIN Decimals : Decimals[i] = char) - 1

\* str.split(sep)
RECURSIVE split(_, _)
split(text, sep) ==
    IF \A i \in DOMAIN text : text[i] # sep
    THEN <<text>>
    ELSE LET i == CHOOSE k \in DOMAIN text :
                    text[k] = sep /\ \A j \in 1..(k - 1) : text[j] # sep
         IN  <<SubSeq(text, 1, i - 1)>> \o split(SubSeq(text, i + 1, Len(text)), sep)

\* str.strip() of blanks
RECURSIVE strip(_)
strip(text) ==
    IF text = <<>> THEN text
    ELSE IF Head(text) = " " THEN strip(Tail(text))
    ELSE IF text[Len(text)] = " " THEN strip(SubSeq(text, 1, Len(text) - 1))
    ELSE text

RECURSIVE DecimalNumber(_)
DecimalNumber(digits) ==
    IF digits = <<>> THEN 0
    ELSE 10 * DecimalNumber(SubSeq(digits, 1, Len(digits) - 1))
            + DecimalValue(digits[Len(digits)])

\* int(text): blanks around the literal and a plus sign are accepted;
\* anything else than decimal digits raises ValueError.
parse_int(text) ==
    LET stripped == strip(text)
        digits == IF stripped # <<>> /\ Head(stripped) = "+" THEN Tail(stripped)
                  ELSE stripped
    IN  IF digits # <<>> /\ \A i \in DOMAIN digits : IsDecimal(digits[i])
        THEN [ok |-> TRUE, value |-> DecimalNumber(digits)]
        ELSE [ok |-> FALSE, value |-> 0]

\* hour, minute = map(int, text.split(':')), then
\* datetime.now().replace(hour=hour, minute=minute, second=0).time(), as
\* seconds since midnight.
parse_time(text) ==
    LET pieces == split(text, ":")
        hour == parse_int(pieces[1])
        minute == parse_int(pieces[2])
    IN  IF Len(pieces) # 2 THEN [ok |-> FALSE, value |-> 0]
        ELSE IF ~hour.ok \/ ~minute.ok THEN [ok |-> FALSE, value |-> 0]
        ELSE IF hour.value > 23 \/ minute.value > 59 THEN [ok |-> FALSE, value |-> 0]
        ELSE [ok |-> TRUE, value |-> hour.value * 3600 + minute.value * 60]

day_names == <<"mon", "tue", "wed", "thu", "fri", "sat", "sun">>
Closed == <<"c", "l", "o", "s", "e", "d">>
\* A column that is NULL.
None == <<"None">>

\* The outcome of a call: a value, or an exception that reaches the caller.
Returns(open) == [raised |-> FALSE, open |-> open]
Raises == [raised |-> TRUE, open |-> FALSE]

\* is_store_open_now without the try ... except around the parsing.
is_store_open_now_unguarded(hours, weekday, current_time) ==
    LET hours_key == <<"hours", day_names[weekday + 1]>>
        today_hours == IF hours_key \in DOMAIN hours THEN hours[hours_key] ELSE Closed
        halves == split(today_hours, "-")
        open_time == parse_time(halves[1])
        close_time == parse_time(halves[2])
    IN  IF today_hours = Closed THEN Returns(FALSE)
        ELSE IF today_hours = None THEN Raises
        ELSE IF Len(halves) # 2 THEN Raises
        ELSE IF ~open_time.ok \/ ~close_time.ok THEN Raises
        ELSE Returns(open_between(<<open_time.value, close_time.value>>, current_time))

\* is_store_open_now: hours is the dict of the seven hours_* columns,
\* weekday and current_time are what datetime.now() gives, the time in
\* seconds since midnight.
is_store_open_now(hours, weekday, current_time) ==
    LET hours_key == <<"hours", day_names[weekday + 1]>>
        today_hours == IF hours_key \in DOMAIN hours THEN hours[hours_key] ELSE Closed
        halves == split(today_hours, "-")
        open_time == parse_time(halves[1])
        close_time == parse_time(halves[2])
    IN  IF today_hours = Closed THEN Returns(FALSE)
        \* except: None has no split
        ELSE IF today_hours = None THEN Returns(FALSE)
        \* except: not two halves to unpack
        ELSE IF Len(halves) # 2 THEN Returns(FALSE)
        \* except: ValueError of int(), of the unpacking or of replace()
        ELSE IF ~open_time.ok \/ ~close_time.ok THEN Returns(FALSE)
        ELSE Returns(open_between(<<open_time.value, close_time.value>>, current_time))

NotApplied == [function |-> "none"]

\* A call of calculate_distance on two points.
DistanceCall(point1, point2) ==
    /\ applied' = [function |-> "calculate_distance", point1 |-> point1, point2 |-> point2,
                   result |-> calculate_distance(point1[1], point1[2], point2[1], point2[2])]
    /\ UNCHANGED <<now, jwtStrict, users, refresh_tokens, issued, stores, store_services,
                   cache, calls, last_set, handlers>>

\* A call of is_store_open_now on a store's hours at some moment of a day.
OpenNowCall(hours, weekday, current_time) ==
    /\ applied' = [function |-> "is_store_open_now", hours |-> hours,
                   weekday |-> weekday, current_time |-> current_time,
                   result |-> is_store_open_now(hours, weekday, current_time)]
    /\ UNCHANGED <<now, jwtStrict, users, refresh_tokens, issued, stores, store_services,
                   cache, calls, last_set, handlers>>

\* geocode_postal_code: the postal code and the country as one query.
geocode_postal_code(c, postal_code, provider) ==
    geocode_address(c, <<postal_code, "USA">>, provider)

\* ------------------------------------------------------------ search router
\* StoreSearchRequest: "" is an address or postal code not given, NoCoord a
\* coordinate not given, <<>> a filter not given.
CoordinateGiven(x) == x # NoCoord

\* Python's truth value of an Optional[float]: None and 0.0 are false.
Truthy(x) == x # NoCoord /\ x # 0

FieldsValid(search_request) ==
    /\ CoordinateGiven(search_request.latitude)
         => -90 * Degree <= search_request.latitude /\ search_request.latitude <= 90 * Degree
    /\ CoordinateGiven(search_request.longitude)
         => -180 * Degree <= search_request.longitude /\ search_request.longitude <= 180 * Degree
    /\ 0 <= search_request.radius_miles /\ search_request.radius_miles <= 100
    /\ \A i \in DOMAIN search_request.store_types : search_request.store_types[i] \in StoreType

validate_lat_lon_pair(search_request) ==
    /\ CoordinateGiven(search_request.latitude) <=> CoordinateGiven(search_request.longitude)
    /\ \/ search_request.address # ""
       \/ search_request.postal_code # ""
       \/ Truthy(search_request.latitude)

\* The names that occur in filters, in alphabetical order.
Alphabetical == <<"express", "flagship", "optical", "outlet", "pharmacy", "pickup", "regular">>

Rank(name) == CHOOSE i \in DOMAIN Alphabetical : Alphabetical[i] = name

sorted(names) == SortSeq(names, LAMBDA a, b : Rank(a) < Rank(b))

\* The coordinate as "{:.4f}" prints it, in ten-thousandths of a degree.
Format4(x) == IF x >= 0 THEN (x + 5) \div 10 ELSE -((5 - x) \div 10)

cacheable_with_open_now(search_request) ==
    Truthy(search_request.latitude) /\ Truthy(search_request.longitude)

cacheable(search_request) ==
    /\ Truthy(search_request.latitude)
    /\ Truthy(search_request.longitude)
    /\ ~search_request.open_now

search_cache_key(search_request) ==
    <<"search:", Format4(search_request.latitude), Format4(search_request.longitude),
      search_request.radius_miles>>
    \o (IF search_request.services # <<>> THEN <<sorted(search_request.services)>> ELSE <<>>)
    \o (IF search_request.store_types # <<>> THEN <<sorted(search_request.store_types)>> ELSE <<>>)

NoLocation == [type |-> "", query |-> "", latitude |-> NoCoord, longitude |-> NoCoord]

NoResponse ==
    [results |-> <<>>, search_location |-> NoLocation,
     filters_applied |-> [radius_miles |-> 0, services |-> <<>>, store_types |-> <<>>,
                          open_now |-> FALSE],
     total_results |-> 0]

SearchResult(status, detail, response, from_cache, geocoded, queried, c) ==
    [status |-> status, detail |-> detail, response |-> response,
     from_cache |-> from_cache, geocoded |-> geocoded, queried |-> queried, cache |-> c]

\* Step 1: the search coordinates.
search_origin(c, search_request, provider) ==
    IF Truthy(search_request.latitude) /\ Truthy(search_request.longitude)
    THEN [ok |-> TRUE, detail |-> "", geocoded |-> <<>>, cache |-> c,
          info |-> [type |-> "coordinates", query |-> "",
                    latitude |-> search_request.latitude,
                    longitude |-> search_request.longitude]]
    ELSE IF search_request.postal_code # ""
    THEN LET result == geocode_postal_code(c, search_request.postal_code, provider) IN
         [ok |-> result.result.found, detail |-> "Could not geocode postal code",
          geocoded |-> <<<<search_request.postal_code, "USA">>>>, cache |-> result.cache,
          info |-> [type |-> "postal_code", query |-> search_request.postal_code,
                    latitude |-> result.result.latitude,
                    longitude |-> result.result.longitude]]
    ELSE IF search_request.address # ""
    THEN LET result == geocode_address(c, <<search_request.address>>, provider) IN
         [ok |-> result.result.found, detail |-> "Could not geocode address",
          geocoded |-> <<<<search_request.address>>>>, cache |-> result.cache,
          info |-> [type |-> "address", query |-> search_request.address,
                    latitude |-> result.result.latitude,
                    longitude |-> result.result.longitude]]
    ELSE [ok |-> FALSE, detail |-> "Must provide either address, postal_code, or coordinates",
          geocoded |-> <<>>, cache |-> c, info |-> NoLocation]

\* Steps 2 and 3: the active stores of the bounding box, of the requested types.
bounding_box_stores(search_lat, search_lon, search_request) ==
    LET bbox == calculate_bounding_box(search_lat, search_lon, search_request.radius_miles) IN
    {id \in DOMAIN stores :
        /\ bbox.min_lat <= stores[id].latitude /\ stores[id].latitude <= bbox.max_lat
        /\ bbox.min_lon <= stores[id].longitude /\ stores[id].longitude <= bbox.max_lon
        /\ stores[id].status = "active"
        /\ search_request.store_types # <<>>
             => \E i \in DOMAIN search_request.store_types :
                    search_request.store_types[i] = stores[id].store_type}

services_of(store_id) == {row[2] : row \in {r \in store_services : r[1] = store_id}}

within_radius_anywhere_in_box(distance_squared, radius_miles) == TRUE

\* `if distance > radius_miles: continue`, on the unrounded distance.
within_radius(distance_squared, radius_miles) ==
    ~(distance_squared > (radius_miles * 100) * (radius_miles * 100))

\* Step 4: distance, services and open_now filters.
search_matches(search_lat, search_lon, search_request) ==
    {id \in bounding_box_stores(search_lat, search_lon, search_request) :
        /\ within_radius(DistanceSquared(search_lat, search_lon,
                                         stores[id].latitude, stores[id].longitude),
                         search_request.radius_miles)
        /\ \A i \in DOMAIN search_request.services :
               search_request.services[i] \in services_of(id)
        /\ search_request.open_now => open_between(stores[id].hours, now)}

search_entry(search_lat, search_lon, id) ==
    [store_id |-> id, store |-> stores[id], services |-> services_of(id),
     distance_miles |-> calculate_distance(search_lat, search_lon,
                                           stores[id].latitude, stores[id].longitude),
     is_open_now |-> open_between(stores[id].hours, now)]

\* The orders in which a query can return a set of rows: it has no ORDER BY.
RowOrders(ids) ==
    {order \in [1..Cardinality(ids) -> ids] : \A id \in ids : \E i \in DOMAIN order : order[i] = id}

\* query.all(): the rows in one of these orders.
query_all(ids) == CHOOSE order \in RowOrders(ids) : TRUE

\* list.sort(key=...) is stable: an entry goes behind the entries whose key
\* is not greater than its own.
RECURSIVE sort_by_distance(_)
sort_by_distance(entries) ==
    IF entries = <<>> THEN <<>>
    ELSE LET n == Len(entries)
             last == entries[n]
             front == sort_by_distance(SubSeq(entries, 1, n - 1))
             before == SelectSeq(front, LAMBDA e : e.distance_miles <= last.distance_miles)
             after == SelectSeq(front, LAMBDA e : e.distance_miles > last.distance_miles)
         IN  before \o <<last>> \o after

\* Steps 4 and 5 on the rows as the query returned them: the entries of the
\* rows that pass the filters, nearest first.
search_results(search_lat, search_lon, search_request, rows) ==
    LET matches == search_matches(search_lat, search_lon, search_request)
        kept == SelectSeq(rows, LAMBDA id : id \in matches)
    IN  sort_by_distance([i \in DOMAIN kept |-> search_entry(search_lat, search_lon, kept[i])])

\* POST /api/stores/search
search_stores(c, search_request, provider) ==
    IF ~(FieldsValid(search_request) /\ validate_lat_lon_pair(search_request))
    THEN SearchResult(422, "validation", NoResponse, FALSE, <<>>, FALSE, c)
    ELSE
    LET cache_key == search_cache_key(search_request)
        cached_result == IF cacheable(search_request)
                         THEN cache_get(c, cache_key)
                         ELSE [hit |-> FALSE, cache |-> c]
    IN  IF cached_result.hit
        THEN SearchResult(200, "", cached_result.cache[cache_key].value, TRUE, <<>>, FALSE,
                          cached_result.cache)
        ELSE
        LET origin == search_origin(cached_result.cache, search_request, provider) IN
        IF ~origin.ok
        THEN SearchResult(400, origin.detail, NoResponse, FALSE, origin.geocoded, FALSE,
                          origin.cache)
        ELSE
        LET search_lat == origin.info.latitude
            search_lon == origin.info.longitude
            rows == query_all(bounding_box_stores(search_lat, search_lon, search_request))
            results == search_results(search_lat, search_lon, search_request, rows)
            response == [results |-> results,
                         search_location |-> origin.info,
                         filters_applied |->
                             [radius_miles |-> search_request.radius_miles,
                              services |-> search_request.services,
                              store_types |-> search_request.store_types,
                              open_now |-> search_request.open_now],
                         total_results |-> Len(results)]
        IN  SearchResult(200, "", response, FALSE, origin.geocoded, TRUE,
                         IF cacheable(search_request)
                         THEN cache_set(origin.cache, cache_key, response, SEARCH_TTL)
                         ELSE origin.cache)

Search(search_request, provider) ==
    /\ cache' = search_stores(cache, search_request, provider).cache
    /\ UNCHANGED <<now, jwtStrict, users, refresh_tokens, issued, stores, store_services,
                   calls, last_set, applied, handlers>>

\* The clock advances.
Tick ==
    /\ now < MaxTime
    /\ now' = now + 1
    /\ UNCHANGED <<jwtStrict, users, refresh_tokens, issued, stores, store_services, cache, calls, last_set, applied, handlers>>

\* ------------------------------------------ handlers on concurrent workers
\* Search and the store endpoints are plain def handlers: the server runs
\* them on worker threads, so the steps of a search (cache lookup, query,
\* cache.set) interleave with the steps of a mutation (commit, cache.clear).
\* One search and one mutation are under way at a time.
NoSearch ==
    [address |-> "", postal_code |-> "", latitude |-> NoCoord, longitude |-> NoCoord,
     radius_miles |-> 0, services |-> <<>>, store_types |-> <<>>, open_now |-> FALSE]

NoHandlers ==
    [search |-> [pc |-> "idle", search_request |-> NoSearch, response |-> NoResponse],
     edit |-> [pc |-> "idle", stores |-> <<>>, store_services |-> {}]]

OtherThanRace == <<now, jwtStrict, users, refresh_tokens, issued, calls, last_set, applied>>

\* search_stores up to the query: a hit returns the cached response; on a
\* miss the handler reads the stores and builds its response.
SearchBegin(search_request, provider) ==
    LET r == search_stores(cache, search_request, provider)
        cache_key == search_cache_key(search_request)
    IN  /\ handlers.search.pc = "idle"
        /\ r.status = 200
        /\ IF r.from_cache
           THEN /\ cache' = r.cache
                /\ UNCHANGED handlers
           ELSE /\ cache' = IF cacheable(search_request)
                            THEN cache_get(cache, cache_key).cache ELSE cache
                /\ handlers' = [handlers EXCEPT !.search =
                                    [pc |-> "computed", search_request |-> search_request,
                                     response |-> r.response]]
        /\ UNCHANGED <<stores, store_services, OtherThanRace>>

\* search_stores from cache.set to the return.
SearchEnd ==
    LET search_request == handlers.search.search_request IN
    /\ handlers.search.pc = "computed"
    /\ cache' = IF cacheable(search_request)
                THEN cache_set(cache, search_cache_key(search_request),
                               handlers.search.response, SEARCH_TTL)
                ELSE cache
    /\ handlers' = [handlers EXCEPT !.search = NoHandlers.search]
    /\ UNCHANGED <<stores, store_services, OtherThanRace>>

\* update_store and delete_store up to db.commit().
EditCommit(r) ==
    /\ handlers.edit.pc = "idle"
    /\ r.status \in {200, 204}
    /\ stores' = r.stores
    /\ store_services' = r.store_services
    /\ handlers' = [handlers EXCEPT !.edit.pc = "committed"]
    /\ UNCHANGED <<cache, OtherThanRace>>

UpdateBegin(cred, store_id, store_data) == EditCommit(update_store(cred, store_id, store_data))

DeleteBegin(cred, store_id) == EditCommit(delete_store(cred, store_id))

\* update_store and delete_store from cache.clear() to the return.
EditClear ==
    /\ handlers.edit.pc = "committed"
    /\ cache' = cache_clear(cache)
    /\ handlers' = [handlers EXCEPT !.edit.pc = "idle"]
    /\ UNCHANGED <<stores, store_services, OtherThanRace>>

\* create_store up to cache.clear(): the new row is flushed, not committed.
CreateBegin(cred, store_data, provider) ==
    LET r == create_store(cred, store_data, provider) IN
    /\ handlers.edit.pc = "idle"
    /\ r.status = 201
    /\ cache' = r.cache
    /\ handlers' = [handlers EXCEPT !.edit =
                        [pc |-> "cleared", stores |-> r.stores,
                         store_services |-> r.store_services]]
    /\ UNCHANGED <<stores, store_services, OtherThanRace>>

\* create_store from db.commit() to the return.
CreateCommit ==
    /\ handlers.edit.pc = "cleared"
    /\ stores' = handlers.edit.stores
    /\ store_services' = handlers.edit.store_services
    /\ handlers' = [handlers EXCEPT !.edit = NoHandlers.edit]
    /\ UNCHANGED <<cache, OtherThanRace>>

\* ------------------------------------------------------------------ inputs
Credentials == Presentable \cup {NoCredentials}

NewUserEmail == "new@test.com"
NewUserPassword == "NewUser123!"

LoginEmails ==
    {SeedUsers[u].email : u \in DOMAIN SeedUsers} \cup {"nonexistent@test.com"}
LoginPasswords ==
    {"AdminTest123!", "MarketerTest123!", "ViewerTest123!", "WrongPassword"}

\* The logins of the permission specification: each seeded user and the
\* user created through the API, with the right password.
Accounts ==
    {<<SeedUsers[u].email, CASE u = 1 -> "AdminTest123!"
                             [] u = 2 -> "MarketerTest123!"
                             [] OTHER -> "ViewerTest123!">> : u \in DOMAIN SeedUsers}
        \cup {<<NewUserEmail, NewUserPassword>>}
\* Its callers: every token handed out, a string that is no token, and no
\* Authorization header.
Callers == issued \cup {Garbage, NoCredentials}

\* A user id with no row.
MissingUserId == 9
\* The user ids the admin requests of the token specification name: the
\* seeded marketer, and no row.
SwitchedUserIds == {2, MissingUserId}
\* The user ids the admin requests of the permission specification name:
\* the seeded viewer, the user created through the API, and no row.
ManagedUserIds == {3, 4, MissingUserId}

\* PUT bodies that switch a user's status, and PUT bodies that change a role.
StatusUpdates == {[role_id |-> UnsetRole, status |-> st] : st \in {"active", "inactive"}}
RoleUpdates == {[role_id |-> r, status |-> UnsetStatus] : r \in RoleIds}

\* PUT bodies that change a role, the body {"role_id": null} among them.
RoleChanges == RoleUpdates \cup {[role_id |-> NoRole, status |-> UnsetStatus]}

\* POST /api/admin/users bodies: a new email with each role, a taken email.
UserCreates ==
    {[email |-> NewUserEmail, password |-> NewUserPassword, role_id |-> r] : r \in RoleIds}
        \cup {[email |-> "viewer@test.com", password |-> NewUserPassword, role_id |-> 3]}

\* Store ids a request may name: the one that gets created, and one that
\* never exists.
StoreIds == {"S0001", "S9999"}
NewStoreIds == {"S0001"}

StoreCreates ==
    {[store_id |-> id, name |-> "Test Store", store_type |-> "regular",
      status |-> "active", hours |-> <<0, 2>>,
      latitude |-> 4071280, longitude |-> -7400600,
      address_street |-> "123 Test St", address_city |-> "New York",
      address_state |-> "NY", services |-> <<"pharmacy">>] : id \in NewStoreIds}

StoreUpdates ==
    {[name |-> "Updated Store Name", status |-> Unset, hours |-> UnsetHours,
      services |-> UnsetServices],
     [name |-> Unset, status |-> "temporarily_closed", hours |-> UnsetHours,
      services |-> <<"pickup">>]}

\* The geocoding provider does not answer.
NoProvider == [address \in {<<"123 Test St", "New York", "NY">>,
                            <<"123 Test St", "New York", "NY", "10001">>} |-> NoPlace]

\* The geocoding provider knows the postal code 10001 and nothing else.
Geocoder ==
    [address \in {<<"10001", "USA">>, <<"1 Nowhere Rd">>} |->
        IF address = <<"10001", "USA">>
        THEN [found |-> TRUE, latitude |-> 4071280, longitude |-> -7400600]
        ELSE NoPlace]

\* The geocoding provider times out or answers with an error.
GeocoderDown == [address \in DOMAIN Geocoder |-> NoPlace]

\* test_search_by_coordinates: ten miles around the test store.
NearStore ==
    [address |-> "", postal_code |-> "", latitude |-> 4071280, longitude |-> -7400600,
     radius_miles |-> 10, services |-> <<>>, store_types |-> <<>>, open_now |-> FALSE]

\* Nine miles south and nine miles west of the test store: inside the
\* ten-mile bounding box, 12.7 miles away.
Corner == [NearStore EXCEPT !.latitude = 4058237, !.longitude = -7417808]

OpenNow == [NearStore EXCEPT !.open_now = TRUE]

ByPostalCode ==
    [NearStore EXCEPT !.latitude = NoCoord, !.longitude = NoCoord, !.postal_code = "10001"]

ByAddress ==
    [NearStore EXCEPT !.latitude = NoCoord, !.longitude = NoCoord, !.address = "1 Nowhere Rd"]

\* Latitude 0.0, longitude 10.0.
OnEquator == [NearStore EXCEPT !.latitude = 0, !.longitude = 10 * Degree]

OnEquatorWithPostalCode == [OnEquator EXCEPT !.postal_code = "10001"]

SearchRequests ==
    {NearStore,
     [NearStore EXCEPT !.latitude = 4071283],
     [NearStore EXCEPT !.services = <<"pickup", "pharmacy">>],
     [NearStore EXCEPT !.services = <<"pharmacy", "pickup">>],
     [NearStore EXCEPT !.store_types = <<"regular">>, !.open_now = TRUE],
     OpenNow,
     Corner,
     OnEquator,
     OnEquatorWithPostalCode,
     [NearStore EXCEPT !.longitude = 0],
     ByPostalCode,
     ByAddress,
     [NearStore EXCEPT !.longitude = NoCoord],
     [NearStore EXCEPT !.latitude = NoCoord, !.postal_code = "10001"],
     [NearStore EXCEPT !.latitude = NoCoord, !.longitude = NoCoord],
     [NearStore EXCEPT !.radius_miles = 101],
     [NearStore EXCEPT !.radius_miles = -1],
     [NearStore EXCEPT !.latitude = 91 * Degree]}

\* Stores for the geometry of the search: two stores 80 units of longitude
\* apart in New York, one store just east of the date line.
GeoStore(id, latitude, longitude) ==
    [store_id |-> id, name |-> "Test Store", store_type |-> "regular",
     status |-> "active", hours |-> <<0, 2>>,
     latitude |-> latitude, longitude |-> longitude,
     address_street |-> "123 Test St", address_city |-> "New York",
     address_state |-> "NY", services |-> <<"pharmacy">>]

GeoStoreIds == {"S0001", "S0002", "S0003"}

GeoStoreCreates ==
    {GeoStore("S0001", 4071280, -7400600),
     GeoStore("S0002", 4071280, -7400520),
     GeoStore("S0003", 10 * Degree, -17999000)}

\* Bodies of PATCH requests: one field, several fields, no field, an empty
\* service list, a service named twice.
StorePatches ==
    {[name |-> "Updated Store Name", status |-> Unset, hours |-> UnsetHours,
      services |-> UnsetServices],
     [name |-> Unset, status |-> "temporarily_closed", hours |-> UnsetHours,
      services |-> <<"pickup">>],
     [name |-> Unset, status |-> Unset, hours |-> <<1, 3>>, services |-> UnsetServices],
     [name |-> Unset, status |-> Unset, hours |-> UnsetHours, services |-> <<>>],
     [name |-> Unset, status |-> Unset, hours |-> UnsetHours,
      services |-> <<"pickup", "pickup">>],
     [name |-> Unset, status |-> Unset, hours |-> UnsetHours, services |-> UnsetServices]}

PatchedStoreIds == {"S0001", "S0002", "S9999"}

\* Two stores in New York, and a body whose latitude is 95 degrees.
PatchedStoreCreates ==
    {GeoStore("S0001", 4071280, -7400600), GeoStore("S0002", 4071280, -7400520),
     GeoStore("S0002", 95 * Degree, -7400520)}

\* One mile north of the two New York stores, a little nearer to the first.
NorthOfFirst == [NearStore EXCEPT !.latitude = 4072730, !.longitude = -7400564]

\* The same, a little nearer to the second.
NorthOfSecond == [NearStore EXCEPT !.latitude = 4072730, !.longitude = -7400556]

\* Just west of the date line, 1.35 miles from the third store.
AcrossDateLine == [NearStore EXCEPT !.latitude = 10 * Degree, !.longitude = 17999000]

GeoQueries == {NearStore, OpenNow, NorthOfFirst, NorthOfSecond, AcrossDateLine}

AllHeaders == required_headers \cup {"latitude", "longitude", "services"}

ImportRow(id) ==
    [store_id |-> id, name |-> "Imported Store", store_type |-> "flagship",
     latitude |-> [kind |-> "number", value |-> 4071280],
     longitude |-> [kind |-> "number", value |-> -7400600],
     hours |-> <<>>,
     address_street |-> "123 Test St", address_city |-> "New York",
     address_state |-> "NY", address_postal_code |-> "10001",
     services |-> <<"pharmacy", " pickup ">>]

ImportFiles ==
    {[is_csv |-> TRUE, headers |-> AllHeaders, rows |-> <<ImportRow(id)>>] : id \in NewStoreIds}

\* Rows of import files.  ImportRow is a valid row of a flagship store.
RegularRow(id) ==
    [ImportRow(id) EXCEPT !.name = "Regular Store", !.store_type = "regular",
                          !.hours = <<0, 2>>, !.services = <<"optical">>]

\* A store type of the enum that valid_types does not list.
ExpressRow(id) == [ImportRow(id) EXCEPT !.store_type = "express"]

\* A store type that valid_types lists and the enum does not have.
PopUpRow(id) == [ImportRow(id) EXCEPT !.store_type = "pop-up"]

\* A store type that neither has.
KioskRow(id) == [ImportRow(id) EXCEPT !.store_type = "kiosk"]

NoNameRow(id) == [ImportRow(id) EXCEPT !.name = ""]

NoCoordinatesRow(id) ==
    [ImportRow(id) EXCEPT !.latitude = [kind |-> "empty", value |-> NoCoord],
                          !.longitude = [kind |-> "empty", value |-> NoCoord]]

TextCoordinatesRow(id) ==
    [ImportRow(id) EXCEPT !.latitude = [kind |-> "text", value |-> NoCoord]]

RepeatedServiceRow(id) == [ImportRow(id) EXCEPT !.services = <<"pharmacy", "pharmacy">>]

ImportStoreIds == {"S0001", "S0002"}

Batches ==
    {<<ImportRow("S0001")>>,
     <<RegularRow("S0001")>>,
     <<ImportRow("S0001"), RegularRow("S0002")>>,
     <<ImportRow("S0001"), RegularRow("S0001")>>,
     <<RegularRow("S0001"), KioskRow("S0002"), ImportRow("S0002")>>,
     <<ExpressRow("S0002")>>,
     <<KioskRow("S0001")>>,
     <<PopUpRow("S0002"), ImportRow("S0001")>>,
     <<NoNameRow("S0001"), RegularRow("S0002")>>,
     <<NoCoordinatesRow("S0001")>>,
     <<TextCoordinatesRow("S0001"), RegularRow("S0001")>>,
     <<RepeatedServiceRow("S0002")>>}

\* Files with the full header row.
CompleteFiles == {[is_csv |-> TRUE, headers |-> AllHeaders, rows |-> rows] : rows \in Batches}

\* Files whose header row lacks one required column.
HeaderlessFiles ==
    {[is_csv |-> TRUE, headers |-> AllHeaders \ {header},
      rows |-> <<NoCoordinatesRow("S0001"), RegularRow("S0002")>>] :
        header \in required_headers}

BatchFiles ==
    CompleteFiles \cup HeaderlessFiles
        \cup {[is_csv |-> FALSE, headers |-> AllHeaders, rows |-> <<ImportRow("S0001")>>]}

\* The geocoding provider knows the address of the rows.
StreetGeocoder ==
    [address \in DOMAIN NoProvider |->
        [found |-> TRUE, latitude |-> 4071280, longitude |-> -7400600]]

ImportProviders == {NoProvider, StreetGeocoder}

\* Import rows whose latitude is the number 95, and files of rows with
\* coordinates as numbers, as text, and left to the geocoder.
OutOfRangeRow(id) ==
    [ImportRow(id) EXCEPT !.latitude = [kind |-> "number", value |-> 95 * Degree]]

RangeFiles ==
    {[is_csv |-> TRUE, headers |-> AllHeaders, rows |-> rows] :
        rows \in {<<OutOfRangeRow("S0002")>>,
                  <<NoCoordinatesRow("S0001"), TextCoordinatesRow("S0002")>>}}

\* Entries of the hours columns, as text.
NineToFive == <<"0", "9", ":", "0", "0", "-", "1", "7", ":", "0", "0">>

HoursEntries ==
    {NineToFive,
     <<"9", ":", "0", "0", "-", "1", "7", ":", "0", "0">>,
     <<"0", "9", ":", "0", "0", "-", "0", "9", ":", "0", "0">>,
     <<"1", "7", ":", "0", "0", "-", "0", "9", ":", "0", "0">>,
     Closed,
     None,
     <<>>,
     <<"0", "9", ":", "0", "0">>,
     <<"9", "-", "1", "7">>,
     <<"0", "9", "0", "0", "-", "1", "7", "0", "0">>,
     <<"a", "b", ":", "0", "0", "-", "1", "7", ":", "0", "0">>,
     <<"2", "5", ":", "0", "0", "-", "2", "6", ":", "0", "0">>,
     <<"0", "9", ":", "6", "0", "-", "1", "7", ":", "0", "0">>,
     <<"0", "9", ":", "0", "0", "-", "1", "7", ":", "0", "0", "-", "1", "8", ":", "0", "0">>}

\* A store whose Friday entry is given and whose other entries are absent.
FridayHours(entry) == [key \in {<<"hours", "fri">>} |-> entry]

\* Friday and Saturday.
Weekdays == {4, 5}

\* Seconds since midnight: midnight, the second before 09:00, 09:00, the
\* second after, the same around 17:00, and the last second of the day.
ClockTimes == {0, 32399, 32400, 32401, 61199, 61200, 61201, 86399}

\* Points in three regions: the east coast (New York, Philadelphia,
\* Boston), both sides of the date line, and the Arctic.
EastCoast ==
    {<<4071280, -7400600>>, <<3995260, -7516520>>, <<4236010, -7105890>>,
     <<4071280, -7400520>>, <<4072730, -7400564>>, <<4058237, -7417808>>}

DateLine ==
    {<<10 * Degree, 17999000>>, <<10 * Degree, -17999000>>, <<12 * Degree, 17950000>>,
     <<11 * Degree, -17950000>>, <<10 * Degree, 180 * Degree>>, <<10 * Degree, -180 * Degree>>}

Arctic ==
    {<<80 * Degree, 0>>, <<82 * Degree, 3 * Degree>>, <<80 * Degree, -3 * Degree>>,
     <<81 * Degree, Degree>>, <<83 * Degree, 0>>, <<80 * Degree, 50000>>}

\* Pairs of points of one region.
PointPairs == (EastCoast \X EastCoast) \cup (DateLine \X DateLine) \cup (Arctic \X Arctic)

\* Cacheable searches from one origin with one radius: no filter, the
\* service "regular", the store type "regular", and both a service and a
\* store type.
FilterQueries ==
    {NearStore,
     [NearStore EXCEPT !.services = <<"regular">>],
     [NearStore EXCEPT !.store_types = <<"regular">>],
     [NearStore EXCEPT !.services = <<"pharmacy">>, !.store_types = <<"regular">>]}

\* ----------------------------------------------------------- specification
Init ==
    /\ now = 0
    /\ jwtStrict \in BOOLEAN
    /\ users = SeedUsers
    /\ refresh_tokens = {}
    /\ issued = {}
    /\ stores = [k \in {} |-> 0]
    /\ store_services = {}
    /\ cache = EmptyCache
    /\ calls = [t \in Threads |-> Idle]
    /\ last_set = [k \in CacheKeys |-> NeverSet]
    /\ applied = NotApplied
    /\ handlers = NoHandlers

\* The token lifecycle: login, refresh, logout, the clock, and the admin
\* requests that switch a user's status.
NextAuth ==
    \/ Tick
    \/ \E email \in LoginEmails, password \in LoginPasswords : Login(email, password)
    \/ \E refresh_token \in Presentable : Refresh(refresh_token)
    \/ \E cred \in Credentials, refresh_token \in Presentable : Logout(cred, refresh_token)
    \/ \E cred \in Credentials : Me(cred)
    \/ \E cred \in Credentials, user_id \in SwitchedUserIds, user_data \in StatusUpdates :
            UpdateUser(cred, user_id, user_data)
    \/ \E cred \in Credentials, user_id \in SwitchedUserIds : DeactivateUser(cred, user_id)

SpecAuth == Init /\ [][NextAuth]_vars

\* The permission-guarded endpoints: user management and the store
\* endpoints, called with the tokens logins hand out.
NextRBAC ==
    \/ \E account \in Accounts : Login(account[1], account[2])
    \/ \E cred \in Callers, user_data \in UserCreates : CreateUser(cred, user_data)
    \/ \E cred \in Callers, user_id \in ManagedUserIds : ReadUsers(cred, user_id)
    \/ \E cred \in Callers, user_id \in ManagedUserIds, user_data \in RoleUpdates :
            UpdateUser(cred, user_id, user_data)
    \/ \E cred \in Callers, user_id \in ManagedUserIds : DeactivateUser(cred, user_id)
    \/ \E cred \in Callers, store_id \in StoreIds : ReadStores(cred, store_id)
    \/ \E cred \in Callers, store_data \in StoreCreates :
            CreateStore(cred, store_data, NoProvider)
    \/ \E cred \in Callers, store_id \in StoreIds, store_data \in StoreUpdates :
            UpdateStore(cred, store_id, store_data)
    \/ \E cred \in Callers, store_id \in StoreIds : DeleteStore(cred, store_id)
    \/ \E cred \in Callers, file \in ImportFiles : BulkImport(cred, file, NoProvider)

SpecRBAC == Init /\ [][NextRBAC]_vars

\* User management on its own: logins, and the admin requests naming any
\* row of the users table.
NextAdmin ==
    \/ \E account \in Accounts : Login(account[1], account[2])
    \/ \E cred \in Callers, user_data \in UserCreates : CreateUser(cred, user_data)
    \/ \E cred \in Callers, user_id \in DOMAIN users \cup {MissingUserId} :
            ReadUsers(cred, user_id)
    \/ \E cred \in Callers, user_id \in DOMAIN users \cup {MissingUserId},
          user_data \in StatusUpdates :
            UpdateUser(cred, user_id, user_data)
    \/ \E cred \in Callers, user_id \in DOMAIN users \cup {MissingUserId} :
            DeactivateUser(cred, user_id)

SpecAdmin == Init /\ [][NextAdmin]_vars

\* The cache under concurrent calls and the clock.
NextCache ==
    \/ Tick
    \/ \E t \in Threads : CacheStep(t)

SpecCache == Init /\ [][NextCache]_vars

\* Role changes of the managed users, next to logins of every account.
NextRoles ==
    \/ \E account \in Accounts : Login(account[1], account[2])
    \/ \E cred \in Callers, user_data \in UserCreates : CreateUser(cred, user_data)
    \/ \E cred \in Callers, user_id \in ManagedUserIds, user_data \in RoleChanges :
            UpdateUser(cred, user_id, user_data)

SpecRoles == Init /\ [][NextRoles]_vars

\* Calls of is_store_open_now.
NextHours ==
    \E entry \in HoursEntries, weekday \in Weekdays, current_time \in ClockTimes :
        OpenNowCall(FridayHours(entry), weekday, current_time)

SpecHours == Init /\ [][NextHours]_vars

\* Calls of calculate_distance.
NextDistance ==
    \E pair \in PointPairs : DistanceCall(pair[1], pair[2])

SpecDistance == Init /\ [][NextDistance]_vars

\* A search worker and a mutation worker, step by step.
NextRace ==
    \/ Login("admin@test.com", "AdminTest123!")
    \/ \E search_request \in {NearStore, OpenNow} : SearchBegin(search_request, Geocoder)
    \/ SearchEnd
    \/ \E cred \in issued, store_data \in StoreCreates :
            CreateBegin(cred, store_data, NoProvider)
    \/ CreateCommit
    \/ \E cred \in issued, store_id \in NewStoreIds, store_data \in StoreUpdates :
            UpdateBegin(cred, store_id, store_data)
    \/ \E cred \in issued, store_id \in NewStoreIds : DeleteBegin(cred, store_id)
    \/ EditClear

SpecRace == Init /\ [][NextRace]_vars

\* Filtered searches from one origin, next to creates and soft deletes.
NextFilters ==
    \/ Login("admin@test.com", "AdminTest123!")
    \/ \E search_request \in FilterQueries : Search(search_request, Geocoder)
    \/ \E cred \in issued, store_data \in StoreCreates :
            CreateStore(cred, store_data, NoProvider)
    \/ \E cred \in issued, store_id \in NewStoreIds : DeleteStore(cred, store_id)

SpecFilters == Init /\ [][NextFilters]_vars

\* Creates, partial updates and imports of an editor's stores.
NextStores ==
    \/ Login("admin@test.com", "AdminTest123!")
    \/ \E cred \in issued, store_data \in PatchedStoreCreates :
            CreateStore(cred, store_data, NoProvider)
    \/ \E cred \in issued, store_id \in PatchedStoreIds, store_data \in StorePatches :
            UpdateStore(cred, store_id, store_data)
    \/ \E cred \in issued, file \in RangeFiles : BulkImport(cred, file, StreetGeocoder)

SpecStores == Init /\ [][NextStores]_vars

\* Public search next to the store mutations of an administrator.
NextSearch ==
    \/ Login("admin@test.com", "AdminTest123!")
    \/ \E search_request \in SearchRequests : Search(search_request, Geocoder)
    \/ \E cred \in issued, store_data \in StoreCreates :
            CreateStore(cred, store_data, NoProvider)
    \/ \E cred \in issued, store_id \in NewStoreIds, store_data \in StoreUpdates :
            UpdateStore(cred, store_id, store_data)
    \/ \E cred \in issued, store_id \in NewStoreIds : DeleteStore(cred, store_id)
    \/ \E cred \in issued, file \in ImportFiles : BulkImport(cred, file, NoProvider)

SpecSearch == Init /\ [][NextSearch]_vars

\* The geometry of the search: stores at several positions, queries from
\* several origins.
NextGeo ==
    \/ Login("admin@test.com", "AdminTest123!")
    \/ \E search_request \in GeoQueries : Search(search_request, Geocoder)
    \/ \E cred \in issued, store_data \in GeoStoreCreates :
            CreateStore(cred, store_data, NoProvider)
    \/ \E cred \in issued, store_id \in GeoStoreIds : DeleteStore(cred, store_id)

SpecGeo == Init /\ [][NextGeo]_vars

\* Bulk imports of an administrator, next to soft deletes.
NextImport ==
    \/ Login("admin@test.com", "AdminTest123!")
    \/ \E cred \in issued, file \in BatchFiles, provider \in ImportProviders,
          storage_fault \in BOOLEAN :
            BulkImportOn(cred, file, provider, storage_fault)
    \/ \E cred \in issued, store_id \in ImportStoreIds : DeleteStore(cred, store_id)

SpecImport == Init /\ [][NextImport]_vars

\* ------------------------------------------------------------- properties
\* The stored records of a token.
RecordsOf(tok) == {t \in refresh_tokens : t.token_hash = hash_token(tok)}

\* C1: a refresh call presenting a token whose record is revoked fails with
\* 401 and returns no access token, and no step sets a record's revoked
\* flag back to false or removes a revoked record.
RevokedStaysRevoked ==
    /\ [](\A tok \in Presentable :
            (\E t \in RecordsOf(tok) : t.revoked) =>
                /\ refresh_access_token(tok).status = 401
                /\ refresh_access_token(tok).access_token = NoToken)
    /\ [][\A t \in refresh_tokens : t.revoked => t \in refresh_tokens']_vars

\* A revoked record whose token still decodes, has not expired and belongs
\* to an active user: the refresh fails for the revocation alone.
RevokedRecordPresented ==
    \E tok \in issued :
        /\ tok.type = "refresh"
        /\ decode_token(tok).valid
        /\ users[tok.user_id].status = "active"
        /\ \E t \in RecordsOf(tok) : t.revoked /\ ~RecordExpired(t)
        /\ refresh_access_token(tok).status = 401

\* C2: a refresh succeeds only for a token that decodes with type
\* "refresh" and has a stored record with revoked = false and
\* now < expires_at; every other refresh is answered 401 without an access
\* token.
RefreshOnlyBeforeExpiry ==
    \A tok \in Presentable :
        LET r == refresh_access_token(tok) IN
        /\ r.status = 200 =>
              /\ tok.sig = "ok"
              /\ tok.type = "refresh"
              /\ \E t \in RecordsOf(tok) : ~t.revoked /\ now < t.expires_at
        /\ r.status # 200 => r.status = 401 /\ r.access_token = NoToken

\* C3: a bearer credential is accepted exactly when it carries a good
\* signature, has not expired, is of type "access", names a user id, and
\* that user has a row whose status is active now; so no refresh token is
\* accepted, nor the access token of a user deactivated since.
AuthenticateAccepts ==
    \A cred \in Credentials :
        /\ Authenticate(cred).ok <=>
              /\ cred.sig = "ok"
              /\ ~JwtExpired(cred.exp)
              /\ cred.type = "access"
              /\ cred.user_id # NoUserId
              /\ cred.user_id \in DOMAIN users
              /\ users[cred.user_id].status = "active"
        /\ Authenticate(cred).ok => Authenticate(cred).user_id = cred.user_id
        /\ ~Authenticate(cred).ok => get_current_user_info(cred).status # 200

\* An access token that has not expired, issued to a user who has been
\* deactivated since, and a refresh token of an active user that is fresh.
DeactivatedSinceIssue ==
    /\ \E cred \in issued :
            /\ cred.type = "access"
            /\ decode_token(cred).valid
            /\ users[cred.user_id].status = "inactive"
            /\ ~Authenticate(cred).ok
    /\ \E cred \in issued :
            /\ cred.type = "refresh"
            /\ decode_token(cred).valid
            /\ users[cred.user_id].status = "active"
            /\ ~Authenticate(cred).ok

\* What a caller sees of a request, and whether the tables are as before.
Outcome(r, unchanged) ==
    [status |-> r.status, detail |-> r.detail, stage |-> r.stage, unchanged |-> unchanged]

StoreOutcome(r) ==
    Outcome(r, r.stores = stores /\ r.store_services = store_services /\ r.cache = cache)

StoreReads(cred) ==
    {StoreOutcome(get_all_stores(cred))}
        \cup {StoreOutcome(get_store(cred, id)) : id \in StoreIds}

StoreEdits(cred) ==
    {StoreOutcome(create_store(cred, d, NoProvider)) : d \in StoreCreates}
        \cup {StoreOutcome(update_store(cred, id, d)) : id \in StoreIds, d \in StoreUpdates}
        \cup {StoreOutcome(delete_store(cred, id)) : id \in StoreIds}

StoreImports(cred) ==
    {StoreOutcome(bulk_import_stores(cred, f, NoProvider)) : f \in ImportFiles}

UserRequests(cred) ==
    {Outcome(create_user(cred, d), create_user(cred, d).users = users) : d \in UserCreates}
        \cup {Outcome(list_users(cred), TRUE)}
        \cup {Outcome(get_user(cred, id), TRUE) : id \in ManagedUserIds}
        \cup {Outcome(update_user(cred, id, d), update_user(cred, id, d).users = users) :
                    id \in ManagedUserIds, d \in RoleUpdates}
        \cup {Outcome(deactivate_user(cred, id), deactivate_user(cred, id).users = users) :
                    id \in ManagedUserIds}

Protected(cred) ==
    StoreReads(cred) \cup StoreEdits(cred) \cup StoreImports(cred) \cup UserRequests(cred)

RoleOf(cred) == RoleName(users[Authenticate(cred).user_id].role_id)

SeedRoleMatrix ==
    \A cred \in Credentials :
        /\ \A o \in UserRequests(cred) :
                o.stage = "handler" => Authenticate(cred).ok /\ RoleOf(cred) = "admin"
        /\ Authenticate(cred).ok =>
              /\ RoleOf(cred) = "viewer" =>
                    /\ \A o \in StoreReads(cred) : o.stage = "handler"
                    /\ \A o \in StoreEdits(cred) \cup StoreImports(cred) :
                            o.status = 403 /\ o.unchanged
              /\ RoleOf(cred) = "marketer" =>
                    /\ \A o \in StoreEdits(cred) : o.stage = "handler"
                    /\ \A o \in UserRequests(cred) : o.status = 403 /\ o.unchanged
              /\ RoleOf(cred) = "admin" =>
                    \A o \in UserRequests(cred) : o.stage = "handler"

\* A viewer and a marketer are logged in and the store exists: the viewer's
\* update is refused, the marketer's is carried out.
ViewerAndMarketerCall ==
    /\ "S0001" \in DOMAIN stores
    /\ \E v \in issued, m \in issued :
            /\ Authenticate(v).ok /\ RoleOf(v) = "viewer"
            /\ Authenticate(m).ok /\ RoleOf(m) = "marketer"
            /\ \A d \in StoreUpdates :
                    /\ update_store(v, "S0001", d).status = 403
                    /\ update_store(m, "S0001", d).status = 200
                    /\ update_store(m, "S0001", d).stores # stores

\* The users a login with these credentials is meant for.
ValidLogin(email, password) ==
    {u \in DOMAIN users : /\ users[u].email = email
                          /\ verify_password(password, users[u].hashed_password)
                          /\ users[u].status = "active"}

\* C6: a login is answered 200 with an access token and a refresh token
\* and adds exactly one record (revoked = false, owned by the user) exactly
\* when the email has a row, the password verifies and the user is active;
\* every other login is answered 401, adds no record, and all 401
\* responses are the same.
LoginUniform401 ==
    \A email \in LoginEmails, password \in LoginPasswords :
        LET r == login(email, password) IN
        /\ r.status = 200 <=> ValidLogin(email, password) # {}
        /\ r.status = 200 =>
              /\ r.access_token # NoToken /\ r.refresh_token # NoToken
              /\ refresh_tokens \subseteq r.refresh_tokens
              /\ \A t \in r.refresh_tokens \ refresh_tokens :
                      ~t.revoked /\ t.user_id \in ValidLogin(email, password)
              /\ Cardinality(r.refresh_tokens \ refresh_tokens) = 1
        /\ r.status # 200 =>
              /\ r.status = 401
              /\ r.refresh_tokens = refresh_tokens
              /\ \A email2 \in LoginEmails, password2 \in LoginPasswords :
                      login(email2, password2).status # 200 =>
                          login(email2, password2).detail = r.detail

\* The status and message of every authentication failure a request can
\* meet now: a rejected bearer token, a refused login, a refused refresh.
AuthFailures ==
    {<<get_current_user(cred).status, get_current_user(cred).detail>> :
            cred \in {c \in Presentable : ~get_current_user(c).ok}}
        \cup {<<login(e, pw).status, login(e, pw).detail>> :
                e \in LoginEmails, pw \in LoginPasswords}
        \cup {<<refresh_access_token(tok).status, refresh_access_token(tok).detail>> :
                tok \in Presentable}

\* C7: every authentication failure carries the same status and the same
\* message.
AuthFailuresUniform ==
    \A f, g \in {x \in AuthFailures : x[1] # 200} : f = g

\* A token is usable in a table when it decodes as a refresh token and the
\* table holds a record of it that is neither revoked nor expired.
UsableIn(records, tok) ==
    /\ decode_token(tok).valid
    /\ decode_token(tok).type = "refresh"
    /\ \E t \in records :
            t.token_hash = hash_token(tok) /\ ~t.revoked /\ ~RecordExpired(t)

\* C8: a logout changes at most one record, the one whose hash is that of
\* the presented token and whose owner is the caller, and changes it to
\* revoked; a token with no such record leaves the table unchanged; every
\* other token is usable after the logout exactly if it was before (a
\* usable token being one refresh accepts for an active user); and an
\* authenticated caller gets the same response whatever the token.
LogoutFrame ==
    /\ \A tok \in Presentable :
            refresh_access_token(tok).status = 200 <=>
                /\ UsableIn(refresh_tokens, tok)
                /\ tok.user_id \in DOMAIN users
                /\ users[tok.user_id].status = "active"
    /\ \A cred \in Credentials, tok \in Presentable :
            LET r == logout(cred, tok)
                before == refresh_tokens \ r.refresh_tokens
                after == r.refresh_tokens \ refresh_tokens
            IN  /\ Cardinality(before) <= 1
                /\ \A t \in before :
                        /\ Authenticate(cred).ok
                        /\ t.token_hash = hash_token(tok)
                        /\ t.user_id = Authenticate(cred).user_id
                        /\ after = {[t EXCEPT !.revoked = TRUE]}
                /\ before = {} => after = {}
                /\ (\A t \in RecordsOf(tok) :
                        ~Authenticate(cred).ok \/ t.user_id # Authenticate(cred).user_id)
                        => r.refresh_tokens = refresh_tokens
                /\ \A other \in Presentable \ {tok} :
                        UsableIn(r.refresh_tokens, other) <=> UsableIn(refresh_tokens, other)
                /\ Authenticate(cred).ok =>
                        r.status = 200 /\ r.detail = "Successfully logged out"

\* A logout has revoked one record while the token of another record is
\* still usable and refreshes.
OneRecordRevoked ==
    \E t \in refresh_tokens, tok \in issued :
        /\ t.revoked
        /\ tok.type = "refresh"
        /\ hash_token(tok) # t.token_hash
        /\ UsableIn(refresh_tokens, tok)
        /\ refresh_access_token(tok).status = 200

\* C9: a logout by an authenticated caller leaves the caller's record of
\* the presented token revoked; and a logout presenting a token whose
\* record is already revoked, is not the caller's or does not exist changes
\* no record and is acknowledged 200 "Successfully logged out" like a first
\* logout.  A second logout therefore leaves the table of the first.
LogoutIdempotent ==
    \A cred \in Credentials, tok \in Presentable :
        Authenticate(cred).ok =>
            LET r == logout(cred, tok)
                mine == {t \in RecordsOf(tok) : t.user_id = Authenticate(cred).user_id}
            IN  /\ r.status = 200 /\ r.detail = "Successfully logged out"
                /\ \A t \in r.refresh_tokens :
                        (t.token_hash = hash_token(tok)
                            /\ t.user_id = Authenticate(cred).user_id) => t.revoked
                /\ (\A t \in mine : t.revoked) => r.refresh_tokens = refresh_tokens

\* A record is revoked and its owner still holds an access token that
\* authenticates: the owner can log out with the same token again.
SecondLogoutPossible ==
    \E tok \in issued, cred \in issued :
        /\ Authenticate(cred).ok
        /\ \E t \in RecordsOf(tok) :
                t.revoked /\ t.user_id = Authenticate(cred).user_id

\* C10 as stated: a logout presenting a token whose record is already
\* revoked is not answered as a successful logout.
RevokedLogoutRejected ==
    \A cred \in Credentials, tok \in Presentable :
        (/\ Authenticate(cred).ok
         /\ \E t \in RecordsOf(tok) :
                t.revoked /\ t.user_id = Authenticate(cred).user_id)
            => logout(cred, tok).status # 200

\* C10 as amended: a logout presenting a token whose record is already
\* revoked is answered 200 "Successfully logged out" and leaves the record
\* revoked.
RevokedLogoutAcknowledged ==
    \A cred \in Credentials, tok \in Presentable :
        (/\ Authenticate(cred).ok
         /\ \E t \in RecordsOf(tok) :
                t.revoked /\ t.user_id = Authenticate(cred).user_id)
            => /\ logout(cred, tok).status = 200
               /\ logout(cred, tok).detail = "Successfully logged out"
               /\ \A t \in RecordsOf(tok) : t.revoked => t \in logout(cred, tok).refresh_tokens

\* The owner of a revoked record presents its token in a logout again and
\* is answered 200.
RevokedTokenLoggedOutAgain ==
    \E tok \in issued, cred \in issued :
        /\ tok.type = "refresh"
        /\ cred.type = "access"
        /\ cred.user_id = tok.user_id
        /\ Authenticate(cred).ok
        /\ \A t \in RecordsOf(tok) : t.revoked
        /\ RecordsOf(tok) # {}
        /\ logout(cred, tok).status = 200

\* C11: a refresh answered 200 leaves the refresh_tokens table as it was,
\* returns the refresh token it was given together with an access token
\* of that token's user, and the token is still usable in the table it
\* leaves: the same refresh is accepted again.
RefreshKeepsRecords ==
    \A tok \in Presentable :
        LET r == refresh_access_token(tok) IN
        r.status = 200 =>
            /\ r.refresh_tokens = refresh_tokens
            /\ r.refresh_token = tok
            /\ r.access_token = create_access_token(tok.user_id)
            /\ UsableIn(r.refresh_tokens, tok)

\* One login, and a refresh at a later time that issued a second access
\* token; the refresh token is still accepted.
RefreshedAndStillUsable ==
    \E tok \in issued :
        /\ tok.type = "refresh"
        /\ refresh_access_token(tok).status = 200
        /\ Cardinality(refresh_tokens) = 1
        /\ Cardinality({a \in issued : a.type = "access" /\ a.user_id = tok.user_id}) >= 2

\* C12: a DELETE of the caller's own user id and a PUT of the caller's own
\* user id with status inactive are rejected (a 4xx answer) and leave the
\* users table as it was.
NoSelfDeactivation ==
    \A cred \in Credentials :
        Authenticate(cred).ok =>
            LET u == Authenticate(cred).user_id
                del == deactivate_user(cred, u)
                put == update_user(cred, u, [role_id |-> UnsetRole, status |-> "inactive"])
            IN  /\ del.status >= 400 /\ del.users = users
                /\ put.status >= 400 /\ put.users = users

\* C14: under every interleaving of the threads' cache calls no call
\* raises, and an entry of the map holds a value some thread wrote.
CacheCallsNeverRaise ==
    /\ \A t \in Threads : calls[t].result.kind # "raised"
    /\ \A k \in DOMAIN cache : \E t \in Threads : cache[k].value = ValueOf(t)

\* C15: an entry of the map is what the most recent set of its key wrote,
\* expiring at that set's time plus its ttl; get of a key finds a value
\* exactly when the key has an entry and now is not past that expiry, and
\* then leaves the map alone and the value is that set's; otherwise it
\* finds nothing and the map it leaves has no entry of the key and every
\* other entry as before.
CacheGetFresh ==
    \A key \in CacheKeys :
        LET g == cache_get(cache, key)
            expiry == last_set[key].at + last_set[key].ttl
        IN  /\ key \in DOMAIN cache =>
                  /\ last_set[key].called
                  /\ cache[key] = [value |-> last_set[key].value, expires_at |-> expiry]
            /\ g.hit <=> (key \in DOMAIN cache /\ now <= expiry)
            /\ g.hit => g.cache = cache /\ g.cache[key].value = last_set[key].value
            /\ ~g.hit =>
                  /\ key \notin DOMAIN g.cache
                  /\ \A k \in DOMAIN cache \ {key} :
                          k \in DOMAIN g.cache /\ g.cache[k] = cache[k]

\* The map holds an entry whose expiry has passed, which no get has
\* evicted yet.
ExpiredEntryHeld ==
    \E key \in DOMAIN cache :
        /\ now > cache[key].expires_at
        /\ ~cache_get(cache, key).hit
        /\ key \notin DOMAIN cache_get(cache, key).cache

\* The cached search results of a cache.
SearchEntries(c) == {key \in DOMAIN c : key[1] = "search:"}

\* C13: every store mutation acknowledged as successful - create, partial
\* update, soft delete, bulk import - returns with a cache that holds no
\* search result computed before the mutation.
MutationsInvalidateSearches ==
    \A cred \in issued :
        /\ \A d \in StoreCreates :
              LET r == create_store(cred, d, NoProvider) IN
              r.status = 201 => SearchEntries(r.cache) \cap SearchEntries(cache) = {}
        /\ \A id \in NewStoreIds, d \in StoreUpdates :
              LET r == update_store(cred, id, d) IN
              r.status = 200 => SearchEntries(r.cache) \cap SearchEntries(cache) = {}
        /\ \A id \in NewStoreIds :
              LET r == delete_store(cred, id) IN
              r.status = 204 => SearchEntries(r.cache) \cap SearchEntries(cache) = {}
        /\ \A f \in ImportFiles :
              LET r == bulk_import_stores(cred, f, NoProvider) IN
              r.status = 200 /\ r.created + r.updated > 0
                  => SearchEntries(r.cache) \cap SearchEntries(cache) = {}

SearchCache(c) == [key \in SearchEntries(c) |-> c[key]]

\* C16: a search whose origin was not supplied as direct coordinates, whose
\* origin was resolved from a postal code or an address, or that requests
\* open_now, never returns a cached result and leaves the cached search
\* results as they are.
SearchCachePolicy ==
    \A search_request \in SearchRequests :
        LET r == search_stores(cache, search_request, Geocoder) IN
        \/ ~CoordinateGiven(search_request.latitude)
        \/ ~CoordinateGiven(search_request.longitude)
        \/ search_request.open_now
        \/ r.response.search_location.type \in {"postal_code", "address"}
        => ~r.from_cache /\ SearchCache(r.cache) = SearchCache(cache)

\* A result is cached under the key of the open_now query, which is
\* answered with a different, computed result; the postal code query finds
\* a store.
OpenNowBypassesCache ==
    LET r == search_stores(cache, OpenNow, Geocoder) IN
    /\ search_cache_key(OpenNow) \in SearchEntries(cache)
    /\ r.status = 200
    /\ r.response.total_results # cache[search_cache_key(OpenNow)].value.total_results
    /\ search_stores(cache, ByPostalCode, Geocoder).response.total_results > 0

\* A query by coordinates as the interface allows it: both coordinates
\* present and in range, a radius of 0 to 100 miles.
CoordinateQuery(q) ==
    /\ q.latitude # NoCoord /\ -90 * Degree <= q.latitude /\ q.latitude <= 90 * Degree
    /\ q.longitude # NoCoord /\ -180 * Degree <= q.longitude /\ q.longitude <= 180 * Degree
    /\ 0 <= q.radius_miles /\ q.radius_miles <= 100

\* The same query up to the order of its filters and to coordinate digits
\* beyond the fourth decimal.
SameSearch(a, b) ==
    /\ Format4(a.latitude) = Format4(b.latitude)
    /\ Format4(a.longitude) = Format4(b.longitude)
    /\ a.radius_miles = b.radius_miles
    /\ sorted(a.services) = sorted(b.services)
    /\ sorted(a.store_types) = sorted(b.store_types)
    /\ a.address = b.address /\ a.postal_code = b.postal_code

\* C17: for every valid coordinate pair (0.0 included), radius and filter
\* set without open_now, the second of two searches with the same input,
\* run with nothing in between, is served from the cache and returns the
\* response of the first.
RepeatedSearchFromCache ==
    \A a, b \in SearchRequests :
        CoordinateQuery(a) /\ CoordinateQuery(b) /\ SameSearch(a, b)
            /\ ~a.open_now /\ ~b.open_now
        => LET first == search_stores(cache, a, Geocoder)
               second == search_stores(first.cache, b, Geocoder)
           IN  second.from_cache /\ second.response = first.response

\* C18: for every query that passes validation, when both coordinates are
\* supplied (0.0 included) the search is answered from that pair as origin
\* and the geocoder is not called; otherwise a supplied postal code is
\* geocoded; otherwise the address is geocoded.
OriginPrecedence ==
    \A q \in SearchRequests :
        LET r == search_stores(cache, q, Geocoder) IN
        r.status # 422 =>
            IF q.latitude # NoCoord /\ q.longitude # NoCoord
            THEN /\ r.status = 200
                 /\ r.geocoded = <<>>
                 /\ ~r.from_cache =>
                        /\ r.response.search_location.type = "coordinates"
                        /\ r.response.search_location.latitude = q.latitude
                        /\ r.response.search_location.longitude = q.longitude
            ELSE IF q.postal_code # ""
            THEN r.geocoded = <<<<q.postal_code, "USA">>>>
            ELSE r.geocoded = <<<<q.address>>>>

LoneCoordinate(q) == (q.latitude = NoCoord) # (q.longitude = NoCoord)

NoOrigin(q) ==
    q.latitude = NoCoord /\ q.longitude = NoCoord /\ q.address = "" /\ q.postal_code = ""

\* C19: a query with a lone coordinate, with no origin at all or with a
\* radius outside 0..100 is rejected as invalid before any geocoding, store
\* query or cache access; a query with both coordinates in range and a
\* radius in 0..100 is never rejected as invalid.
SearchValidation ==
    \A q \in SearchRequests :
        LET r == search_stores(cache, q, Geocoder) IN
        /\ LoneCoordinate(q) \/ NoOrigin(q) \/ q.radius_miles < 0 \/ q.radius_miles > 100
              => /\ r.status = 422
                 /\ r.geocoded = <<>> /\ ~r.queried /\ ~r.from_cache /\ r.cache = cache
        /\ CoordinateQuery(q) => r.status # 422

\* C20: every store of a freshly computed search result is active, lies at
\* an unrounded distance of at most the radius from the origin (being in
\* the bounding box is not enough), carries every requested service, is of
\* a requested type when types are requested, and is open when open_now is
\* requested.
ResultsSatisfyQuery ==
    \A q \in SearchRequests :
        LET r == search_stores(cache, q, Geocoder)
            origin == r.response.search_location
        IN  r.status = 200 /\ ~r.from_cache =>
            \A i \in DOMAIN r.response.results :
                LET id == r.response.results[i].store_id IN
                /\ id \in DOMAIN stores
                /\ stores[id].status = "active"
                /\ DistanceSquared(origin.latitude, origin.longitude,
                                   stores[id].latitude, stores[id].longitude)
                      <= (q.radius_miles * 100) * (q.radius_miles * 100)
                /\ \A j \in DOMAIN q.services : <<id, q.services[j]>> \in store_services
                /\ q.store_types # <<>>
                      => \E j \in DOMAIN q.store_types : q.store_types[j] = stores[id].store_type
                /\ q.open_now
                      => /\ Len(stores[id].hours) = 2
                         /\ stores[id].hours[1] <= now /\ now <= stores[id].hours[2]

\* An active store lies in the bounding box of the corner query and is left
\* out of its result, while the query at the store's position finds it.
CornerStorePruned ==
    LET r == search_stores(cache, Corner, Geocoder) IN
    /\ bounding_box_stores(Corner.latitude, Corner.longitude, Corner) # {}
    /\ r.status = 200 /\ ~r.from_cache /\ r.response.total_results = 0
    /\ search_stores(cache, OpenNow, Geocoder).response.total_results = 1

\* The unrounded distance of two points is at most the radius.
WithinDisk(lat1, lon1, lat2, lon2, radius_miles) ==
    /\ (Abs(lat2 - lat1) * MilesPerDegree) \div 1000 <= radius_miles * 100
    /\ (((LongitudeDifference(lon1, lon2) * MilesPerDegree) \div 1000) * CosMilli(lat1))
            \div 1000 <= radius_miles * 100
    /\ DistanceSquared(lat1, lon1, lat2, lon2)
            <= (radius_miles * 100) * (radius_miles * 100)

\* The store passes the filters of the query.
PassesFilters(id, q) ==
    /\ stores[id].status = "active"
    /\ \A j \in DOMAIN q.services : <<id, q.services[j]>> \in store_services
    /\ q.store_types # <<>>
          => \E j \in DOMAIN q.store_types : q.store_types[j] = stores[id].store_type
    /\ q.open_now
          => /\ Len(stores[id].hours) = 2
             /\ stores[id].hours[1] <= now /\ now <= stores[id].hours[2]

\* C21: the bounding box never excludes a true match: every active store
\* within the radius of the origin that passes the filters is in a freshly
\* computed result, wherever the origin lies.
TrueMatchesFound ==
    \A q \in GeoQueries :
        LET r == search_stores(cache, q, Geocoder)
            origin == r.response.search_location
        IN  r.status = 200 /\ ~r.from_cache =>
            \A id \in DOMAIN stores :
                /\ PassesFilters(id, q)
                /\ WithinDisk(origin.latitude, origin.longitude,
                              stores[id].latitude, stores[id].longitude, q.radius_miles)
                => \E i \in DOMAIN r.response.results : r.response.results[i].store_id = id

\* C22: the results are in ascending order of the unrounded distance from
\* the origin, in whatever order the query returned the rows, and
\* total_results is the number of results.
SortedByExactDistance ==
    \A q \in GeoQueries :
        LET r == search_stores(cache, q, Geocoder) IN
        r.status = 200 =>
            /\ r.response.total_results = Len(r.response.results)
            /\ \A rows \in RowOrders(bounding_box_stores(q.latitude, q.longitude, q)) :
                  LET results == search_results(q.latitude, q.longitude, q, rows) IN
                  \A i, j \in DOMAIN results :
                      i < j =>
                          DistanceSquared(q.latitude, q.longitude,
                                          results[i].store.latitude, results[i].store.longitude)
                            <= DistanceSquared(q.latitude, q.longitude,
                                               results[j].store.latitude,
                                               results[j].store.longitude)

\* C23: a search calls the geocoder at most once and is never answered
\* with a 5xx; when the geocoder has no place for its postal code or
\* address, for lack of a result, a timeout or a provider error, the search
\* is answered 400 "could not geocode" and leaves the cache as it was.
GeocodeFailureIs400 ==
    \A q \in SearchRequests, provider \in {Geocoder, GeocoderDown} :
        LET r == search_stores(cache, q, provider) IN
        /\ Len(r.geocoded) <= 1
        /\ r.status \in {200, 400, 422}
        /\ r.geocoded # <<>> =>
              LET cache_key == <<"geocode:address:", Lower(r.geocoded[1])>> IN
              IF cache_key \in DOMAIN cache \/ provider[r.geocoded[1]].found
              THEN r.status = 200
              ELSE /\ r.status = 400
                   /\ r.detail \in {"Could not geocode postal code",
                                     "Could not geocode address"}
                   /\ r.cache = cache

\* A postal code has been geocoded and a search result cached; the search
\* by address fails, and so does the search by postal code of a cache
\* without the geocoded place when the provider is down.
GeocodeFails ==
    /\ <<"geocode:address:", Lower(<<"10001", "USA">>)>> \in DOMAIN cache
    /\ SearchEntries(cache) # {}
    /\ search_stores(cache, ByAddress, Geocoder).status = 400
    /\ search_stores(SearchCache(cache), ByPostalCode, GeocoderDown).status = 400
    /\ search_stores(cache, ByPostalCode, GeocoderDown).status = 200

\* The import requests of a caller: files, providers, storage faults.
ImportRequests ==
    {[file |-> file, provider |-> provider, storage_fault |-> storage_fault] :
        file \in BatchFiles, provider \in ImportProviders, storage_fault \in BOOLEAN}

Import(cred, request) ==
    bulk_import_stores_on(cred, request.file, request.provider, request.storage_fault)

\* C24: an import whose header row lacks one of store_id, name, store_type,
\* address_street, address_city, address_state, address_postal_code fails
\* as one error (400 for a permitted caller) before any row is processed:
\* stores, service associations and the cache of geocoded places stay as
\* they are and no row is counted.
MissingHeadersRejected ==
    \A cred \in issued, request \in ImportRequests :
        LET r == Import(cred, request) IN
        ~({"store_id", "name", "store_type", "address_street", "address_city",
           "address_state", "address_postal_code"} \subseteq request.file.headers)
        => /\ r.status # 200
           /\ require_permission("write:stores", cred).ok /\ request.file.is_csv
                 => r.status = 400 /\ r.detail = "Missing required CSV columns"
           /\ r.stores = stores /\ r.store_services = store_services /\ r.cache = cache
           /\ r.total_rows = 0 /\ r.failed_records = <<>>

\* A permitted caller uploads a file without one required column whose
\* rows, under a complete header row, would change the stores.
HeaderlessFileRefused ==
    \E cred \in issued, file \in HeaderlessFiles :
        /\ stores # << >>
        /\ bulk_import_stores(cred, file, StreetGeocoder).status = 400
        /\ bulk_import_stores(cred, [file EXCEPT !.headers = AllHeaders],
                              StreetGeocoder).stores # stores

\* An import request that reaches the loop over the rows and the commit:
\* a permitted caller, a CSV file with the required columns, a storage
\* that commits.
Processed(cred, request) ==
    /\ require_permission("write:stores", cred).ok
    /\ request.file.is_csv
    /\ required_headers \subseteq request.file.headers
    /\ ~request.storage_fault

\* A row that is valid but for its store type: store_id and name,
\* coordinates that are numbers or an address that can be geocoded, no
\* service named twice.
AcceptableButForType(row, provider) ==
    /\ row.store_id # "" /\ row.name # ""
    /\ IF row.latitude.kind = "empty" \/ row.longitude.kind = "empty"
       THEN LET full_address == <<row.address_street, row.address_city,
                                  row.address_state, row.address_postal_code>>
            IN  \/ provider[full_address].found
                \/ <<"geocode:address:", Lower(full_address)>> \in DOMAIN cache
       ELSE row.latitude.kind = "number" /\ row.longitude.kind = "number"
    /\ ~HasDuplicates(ParseServices(row.services))

\* A row the interface accepts: its store type is of the enum as well.
AcceptableRow(row, provider) ==
    /\ AcceptableButForType(row, provider)
    /\ LowerStr(row.store_type) \in {"flagship", "regular", "outlet", "express"}

\* C25: one row's failure never aborts the batch: of N data rows the
\* acceptable ones are upserted and counted, every other row is recorded
\* once with its position plus 1 as row_number, and
\* created + updated + failed = N.
RowFailuresIsolated ==
    \A cred \in issued, request \in ImportRequests :
        Processed(cred, request) =>
            LET r == Import(cred, request)
                rows == request.file.rows
                failing == {k \in DOMAIN rows : ~AcceptableRow(rows[k], request.provider)}
            IN  /\ r.status = 200
                /\ r.created + r.updated + r.failed = Len(rows)
                /\ r.failed = Cardinality(failing)
                /\ {r.failed_records[i].row_number : i \in DOMAIN r.failed_records}
                      = {k + 1 : k \in failing}
                /\ \A k \in DOMAIN rows \ failing : rows[k].store_id \in DOMAIN r.stores

\* C26: a row fails on its store type exactly when the type is none of
\* flagship, regular, outlet, express: an otherwise valid row with one of
\* the four is not among the failed records, a row with another type is,
\* and alone in its batch it leaves stores and service associations as
\* they are.
StoreTypeChecked ==
    \A cred \in issued, request \in ImportRequests :
        Processed(cred, request) =>
            LET r == Import(cred, request)
                rows == request.file.rows
                failed_rows == {r.failed_records[i].row_number : i \in DOMAIN r.failed_records}
            IN  \A k \in DOMAIN rows :
                    AcceptableButForType(rows[k], request.provider) =>
                        IF LowerStr(rows[k].store_type)
                                \in {"flagship", "regular", "outlet", "express"}
                        THEN k + 1 \notin failed_rows /\ rows[k].store_id \in DOMAIN r.stores
                        ELSE /\ k + 1 \in failed_rows
                             /\ Len(rows) = 1
                                  => r.stores = stores /\ r.store_services = store_services

\* C27: after an import, the row last processed with success for a
\* store_id has left one store that carries the row's values, active if
\* the store is new, with exactly the row's services; a batch without
\* failed rows adds the new store_ids and no other, so a store that
\* existed is updated in place, also when the batch repeats a store_id.
ImportUpserts ==
    \A cred \in issued, request \in ImportRequests :
        LET r == Import(cred, request)
            rows == request.file.rows
            failed_rows == {r.failed_records[i].row_number : i \in DOMAIN r.failed_records}
        IN  Processed(cred, request) /\ r.status = 200 =>
            /\ r.failed = 0 =>
                  DOMAIN r.stores = DOMAIN stores \cup {rows[k].store_id : k \in DOMAIN rows}
            /\ \A k \in DOMAIN rows :
                  /\ k + 1 \notin failed_rows
                  /\ \A later \in DOMAIN rows :
                        later > k => rows[later].store_id # rows[k].store_id
                  => LET id == rows[k].store_id IN
                     /\ id \in DOMAIN r.stores
                     /\ r.stores[id].name = rows[k].name
                     /\ r.stores[id].store_type = LowerStr(rows[k].store_type)
                     /\ r.stores[id].hours = rows[k].hours
                     /\ r.stores[id].address_street = rows[k].address_street
                     /\ rows[k].latitude.kind = "number" /\ rows[k].longitude.kind = "number"
                           => /\ r.stores[id].latitude = rows[k].latitude.value
                              /\ r.stores[id].longitude = rows[k].longitude.value
                     /\ id \notin DOMAIN stores => r.stores[id].status = "active"
                     /\ {row \in r.store_services : row[1] = id}
                           = {<<id, name>> : name \in {ParseServices(rows[k].services)[i] :
                                                     i \in DOMAIN ParseServices(rows[k].services)}}

\* Store S0001 has the pharmacy service; the import of a row for S0001
\* without it updates the store and the service is gone.
ServicesReplaced ==
    \E cred \in issued :
        LET file == [is_csv |-> TRUE, headers |-> AllHeaders,
                     rows |-> <<RegularRow("S0001")>>]
            r == bulk_import_stores(cred, file, NoProvider)
        IN  /\ <<"S0001", "pharmacy">> \in store_services
            /\ r.status = 200 /\ r.updated = 1
            /\ <<"S0001", "pharmacy">> \notin r.store_services
            /\ Cardinality(DOMAIN r.stores) = Cardinality(DOMAIN stores)

\* C28: when the commit at the end of an import fails, the request is
\* answered 500 without counts or failure records, and stores and service
\* associations are as they were before the batch.
CommitFailureRollsBack ==
    \A cred \in issued, request \in ImportRequests :
        LET r == Import(cred, request) IN
        /\ /\ require_permission("write:stores", cred).ok
           /\ request.file.is_csv
           /\ required_headers \subseteq request.file.headers
           /\ request.storage_fault
           => r.status = 500
        /\ r.status = 500 =>
              /\ r.stores = stores /\ r.store_services = store_services
              /\ r.total_rows = 0 /\ r.failed_records = <<>>

\* Stores exist; a batch that would update one and add another is
\* answered 500 on a storage fault.
CommitFails ==
    \E cred \in issued :
        LET file == [is_csv |-> TRUE, headers |-> AllHeaders,
                     rows |-> <<ImportRow("S0001"), RegularRow("S0002")>>]
            committed == bulk_import_stores_on(cred, file, NoProvider, FALSE)
        IN  /\ DOMAIN stores = {"S0001"}
            /\ committed.status = 200 /\ committed.created = 1 /\ committed.updated = 1
            /\ bulk_import_stores_on(cred, file, NoProvider, TRUE).status = 500

\* DELETE /stores/{id} changes nothing but the status of the store, which
\* becomes inactive.
DeleteOnlyDeactivates ==
    \A cred \in Callers, id \in StoreIds :
        LET r == delete_store(cred, id) IN
        /\ r.store_services = store_services
        /\ r.stores = IF r.status = 204
                      THEN [stores EXCEPT ![id].status = "inactive"]
                      ELSE stores

DuplicateCreateRefused ==
    \A cred \in Callers, d \in StoreCreates :
        LET r == create_store(cred, d, NoProvider) IN
        d.store_id \in DOMAIN stores =>
            /\ require_permission("write:stores", cred).ok
                  => r.status = 400 /\ r.detail = "Store ID already exists"
            /\ r.status # 201
            /\ r.stores = stores /\ r.store_services = store_services

\* A store exists whose record differs from the body of a create request
\* for its store_id, sent by a permitted caller.
DuplicateCreate ==
    \E cred \in issued, d \in StoreCreates :
        /\ d.store_id \in DOMAIN stores
        /\ stores[d.store_id].name # d.name
        /\ require_permission("write:stores", cred).ok
        /\ create_store(cred, d, NoProvider).status = 400

\* The fields a PATCH body can carry, in the model: name, status, hours.
Patched(row, store_data) ==
    [row EXCEPT !.name = IF store_data.name = Unset THEN row.name ELSE store_data.name,
                !.status = IF store_data.status = Unset THEN row.status
                           ELSE store_data.status,
                !.hours = IF store_data.hours = UnsetHours THEN row.hours
                          ELSE store_data.hours]

CoordinatesInRange ==
    \A id \in DOMAIN stores :
        /\ LatitudeInRange(stores[id].latitude)
        /\ LongitudeInRange(stores[id].longitude)

\* C33: every user has a role that exists.
EveryUserHasRole ==
    \A user_id \in DOMAIN users : users[user_id].role_id \in RoleIds

\* A numeral of one or two decimal digits.
Numeral(text) ==
    /\ Len(text) \in {1, 2}
    /\ \A i \in DOMAIN text : IsDecimal(text[i])

\* The places of the two colons and the dash of an "HH:MM-HH:MM" text, if
\* it has that form: hours up to 23 and minutes up to 59 around them.
HoursForm(text) ==
    {p \in (DOMAIN text) \X (DOMAIN text) \X (DOMAIN text) :
        /\ p[1] < p[2] /\ p[2] < p[3]
        /\ text[p[1]] = ":" /\ text[p[2]] = "-" /\ text[p[3]] = ":"
        /\ Numeral(SubSeq(text, 1, p[1] - 1))
        /\ Numeral(SubSeq(text, p[1] + 1, p[2] - 1))
        /\ Numeral(SubSeq(text, p[2] + 1, p[3] - 1))
        /\ Numeral(SubSeq(text, p[3] + 1, Len(text)))
        /\ DecimalNumber(SubSeq(text, 1, p[1] - 1)) <= 23
        /\ DecimalNumber(SubSeq(text, p[1] + 1, p[2] - 1)) <= 59
        /\ DecimalNumber(SubSeq(text, p[2] + 1, p[3] - 1)) <= 23
        /\ DecimalNumber(SubSeq(text, p[3] + 1, Len(text))) <= 59}

WellFormedHours(text) == HoursForm(text) # {}

OpeningSecond(text) ==
    LET p == CHOOSE q \in HoursForm(text) : TRUE IN
    3600 * DecimalNumber(SubSeq(text, 1, p[1] - 1))
        + 60 * DecimalNumber(SubSeq(text, p[1] + 1, p[2] - 1))

ClosingSecond(text) ==
    LET p == CHOOSE q \in HoursForm(text) : TRUE IN
    3600 * DecimalNumber(SubSeq(text, p[2] + 1, p[3] - 1))
        + 60 * DecimalNumber(SubSeq(text, p[3] + 1, Len(text)))

Spellings == {<<"10001", "USA">>, <<"10001", "usa">>}
Unanswered == [address \in Spellings |-> NoPlace]

\* An address the cache answers by itself.
GeocodeCached(c, address) == geocode_address(c, address, Unanswered).result.found

\* C36: once an address is answered from the cache, every spelling of it
\* is answered from the cache with the same coordinates after any further
\* request, without the provider.
GeocodesStayCached ==
    [][\A address \in Spellings :
          GeocodeCached(cache, address)
            => \A spelling \in Spellings :
                  geocode_address(cache', spelling, Unanswered).result
                      = geocode_address(cache, address, Unanswered).result]_vars

\* C37: when no mutation is under way - every mutation so far has
\* returned - the cache holds no search result other than the one the
\* search computes from the stores as they are.
NoStaleSearchAfterMutation ==
    handlers.edit.pc = "idle" =>
        \A search_request \in {NearStore, OpenNow} :
            LET cache_key == search_cache_key(search_request) IN
            (cacheable(search_request) /\ cache_key \in DOMAIN cache)
                => cache[cache_key].value
                      = search_stores(EmptyCache, search_request, Geocoder).response

\* The set of names of a filter.
Names(filter) == {filter[i] : i \in DOMAIN filter}

\* C38: cacheable queries that differ in their services or in their store
\* types have different cache keys, so a search answered from the cache
\* gets a response computed for its own services and store types.
FiltersKeyedApart ==
    \A search_request \in FilterQueries :
        LET r == search_stores(cache, search_request, Geocoder) IN
        /\ r.from_cache
              => /\ Names(r.response.filters_applied.services)
                        = Names(search_request.services)
                 /\ Names(r.response.filters_applied.store_types)
                        = Names(search_request.store_types)
        /\ \A other \in FilterQueries :
              (\/ Names(other.services) # Names(search_request.services)
               \/ Names(other.store_types) # Names(search_request.store_types))
                => (search_cache_key(other) \in DOMAIN cache
                        => search_cache_key(other) # search_cache_key(search_request))

\* The store ids of a file all of whose rows the response records as failed.
FailedOnly(rows, failed_records) ==
    {rows[k].store_id : k \in DOMAIN rows} \
        {rows[k].store_id : k \in {j \in DOMAIN rows :
            \A i \in DOMAIN failed_records : failed_records[i].row_number # j + 1}}

\* C39: a store whose rows in the file are all recorded as failed, and its
\* services, are after the import as they were before it.
FailedRowsLeaveNoTrace ==
    \A cred \in issued, request \in ImportRequests :
        LET r == Import(cred, request) IN
        \A id \in FailedOnly(request.file.rows, r.failed_records) :
            /\ id \in DOMAIN r.stores <=> id \in DOMAIN stores
            /\ id \in DOMAIN stores => r.stores[id] = stores[id]
            /\ {row \in r.store_services : row[1] = id}
                  = {row \in store_services : row[1] = id}

\* The access tokens in clients' hands that authenticate a user with a role.
Authenticated ==
    {cred \in issued : /\ cred.type = "access"
                       /\ Authenticate(cred).ok
                       /\ users[cred.user_id].role_id \in RoleIds}

\* C40: a request is allowed or refused 403 by the permissions of the role
\* the user has in the users table now, whatever role the token names.
StoredRoleDecides ==
    \A cred \in Authenticated :
        LET permissions == RolePermissions(users[cred.user_id].role_id) IN
        /\ \A permission_name \in AllPermissions :
              LET r == require_permission(permission_name, cred) IN
              IF permission_name \in permissions THEN r.ok ELSE ~r.ok /\ r.status = 403
        /\ list_users(cred).status = IF "write:users" \in permissions THEN 200 ELSE 403
        /\ get_all_stores(cred).status = IF "read:stores" \in permissions THEN 200 ELSE 403
        /\ \A store_id \in StoreIds :
              delete_store(cred, store_id).status = 403 <=> "delete:stores" \notin permissions

\* A token issued to the viewer, who has been made an administrator since:
\* the token names the role viewer and lists the users.
PromotedSinceIssue ==
    \E cred \in Authenticated :
        /\ cred.role = "viewer"
        /\ RoleName(users[cred.user_id].role_id) = "admin"
        /\ list_users(cred).status = 200

====
